---- MODULE Spec2Model ----
(***************************************************************************)
(* Model of the modular pyATS VXLAN test suite                             *)
(* (src/modular architecture): the text parsers of vxlan_utils.py, the     *)
(* validators of vxlan_validators.py, the result collector of base_test.py *)
(* and the summary report of enhanced_vxlan_testsuite.py.                  *)
(*                                                                         *)
(* Command output is a sequence of lines, a line a sequence of tokens      *)
(* (the whitespace-separated words of the physical line).  Python's        *)
(* substring test `needle in text` and the regular expressions of          *)
(* REGEX_PATTERNS are evaluated on the tokens: TokensWith(needle) lists    *)
(* the tokens of the vocabulary that contain the needle as a substring.    *)
(* A ValidationResult keeps passed, severity, message and details; the     *)
(* recommendations list (free text for the operator) is not modelled.      *)
(***************************************************************************)
EXTENDS Integers, Sequences, FiniteSets, TLC

VARIABLES
    max_vni_count,   \* CONFIG.thresholds.max_vni_count (default or env override)
    call,            \* the validator call under examination: [fn, arg]
    ret,             \* the value that call returned
    rpc,             \* "ready" before the call, "returned" after it
    testbed,         \* testbed.devices: per device, whether connect() succeeds
                     \* and what each show command gives
    library,         \* how the aetest objects answer the lookups the suite makes
    device_info,     \* parent.parameters['device_info']
    setup_failed,    \* a CommonSetup subsection called self.failed
    test_results,    \* per test class instance, BaseVXLANTest.test_results
    device_metrics,  \* per test class instance, BaseVXLANTest.device_metrics
    steps,           \* the aetest steps the test methods have opened
    pc,              \* the section of the script that runs next
    report           \* what generate_summary_report computed

\* the variables of a run of the script
runvars ==
    <<testbed, library, device_info, setup_failed, test_results, device_metrics,
      steps, pc, report>>

vars == <<max_vni_count, call, ret, rpc, runvars>>

\* a dict with no key
EmptyDict == <<>>

\* no script runs: a validator is called on its own
NoRun ==
    /\ testbed = EmptyDict
    /\ library = EmptyDict
    /\ device_info = EmptyDict
    /\ setup_failed = FALSE
    /\ test_results = EmptyDict
    /\ device_metrics = EmptyDict
    /\ steps = {}
    /\ pc = "none"
    /\ report = EmptyDict

----------------------------------------------------------------------------
(* Bounds of the model *)

MaxPeerLines == 3      \* data lines of a `show nve peers` output
MaxBgpLines == 3       \* data lines of a `show bgp l2vpn evpn summary` output
MaxVniLines == 2       \* data lines of a `show nve vni` output
MaxSmallCount == 4     \* the small VNI counts 0..MaxSmallCount tried on the usage rules
OverrideMaxVniCount == 2   \* a small VXLAN_MAX_VNI_COUNT override from the environment

----------------------------------------------------------------------------
(* Text primitives *)

\* str.lower() on one token
Lower(tok) ==
    CASE tok = "Established" -> "established"
      [] tok = "ESTABLISHED" -> "established"
      [] tok = "Idle" -> "idle"
      [] tok = "Active" -> "active"
      [] tok = "BGP" -> "bgp"
      [] tok = "Invalid" -> "invalid"
      [] tok = "Nexus9000" -> "nexus9000"
      [] tok = "Nexus" -> "nexus"
      [] tok = "Nexus7000" -> "nexus7000"
      [] tok = "NX-OS" -> "nx-os"
      [] tok = "Cisco" -> "cisco"
      [] tok = "IOS" -> "ios"
      [] tok = "Chassis" -> "chassis"
      [] tok = "NXOS:" -> "nxos:"
      [] tok = "System:" -> "system:"
      [] tok = "UnicastBGP" -> "unicastbgp"
      [] tok = "Errors:" -> "errors:"
      [] tok = "Enabled" -> "enabled"
      [] tok = "Source-Interface:" -> "source-interface:"
      [] tok = "Line" -> "line"
      [] tok = "Protocol" -> "protocol"
      [] tok = "CRC:" -> "crc:"
      [] tok = "Static" -> "static"
      [] OTHER -> tok

\* the tokens of the vocabulary that contain `needle` as a substring
TokensWith(needle) ==
    CASE needle = "Peer-IP" -> {"Peer-IP"}
      [] needle = "Up" -> {"Up", "Uptime", "Up/Down"}
      [] needle = "Down" -> {"Down", "Up/Down"}
      [] needle = "VNI" -> {"VNI"}
      [] needle = "L3" -> {"L3"}
      [] needle = "nexus" -> {"nexus", "nexus9000", "nexus7000"}
      [] needle = "9000" -> {"9000", "Nexus9000", "nexus9000"}
      [] needle = "error" -> {"error", "errors:"}
      [] needle = "drop" -> {"drop", "drops:"}
      [] needle = "discard" -> {"discard", "discards:"}
      [] needle = "invalid" -> {"invalid"}
      [] needle = "bgp" -> {"bgp", "protocol-bgp", "unicastbgp"}
      [] needle = "protocol-bgp" -> {"protocol-bgp"}
      [] needle = "static" -> {"static"}
      [] needle = "source-interface" -> {"source-interface", "source-interface:"}
      [] OTHER -> {needle}

\* `needle in line`
InLine(needle, line) == \E i \in 1..Len(line) : line[i] \in TokensWith(needle)

\* `needle in output`
InOutput(needle, output) == \E i \in 1..Len(output) : InLine(needle, output[i])

\* `needle in output.lower()`
InOutputLower(needle, output) ==
    \E i \in 1..Len(output) : \E j \in 1..Len(output[i]) :
        Lower(output[i][j]) \in TokensWith(needle)

\* `phrase in output.lower()` for a phrase of several words (on one line)
PhraseInOutputLower(phrase, output) ==
    \E i \in 1..Len(output) : \E j \in 0..(Len(output[i]) - Len(phrase)) :
        \A k \in 1..Len(phrase) : Lower(output[i][j + k]) = phrase[k]

\* REGEX_PATTERNS['ip_address']: the tokens that hold a dotted-quad literal
IpTokens == {"10.0.0.1", "10.0.0.2"}

\* \d+ : the tokens that are a run of digits
DigitTokens == {"4", "10", "65000", "100", "10100"}

\* sequences over S of length 0..n
SeqUpTo(S, n) == UNION {[1..k -> S] : k \in 0..n}

----------------------------------------------------------------------------
(* Results *)

\* a ValidationResult built with the severity argument left at its default
create_result_default_severity(passed, message, details, severity) ==
    [passed |-> passed, message |-> message, details |-> details,
     severity |-> "info"]

\* BaseValidator.create_result
create_result(passed, message, details, severity) ==
    [passed |-> passed, message |-> message, details |-> details,
     severity |-> severity]

\* an f-string: the literal text with its interpolated values
Msg(fmt, args) == [fmt |-> fmt, args |-> args]

NoDetails == [none |-> TRUE]

\* the outcome of DeviceExecutor.execute_command: the text, or
\* CommandExecutionError raised
ExecOk(output) == [raised |-> FALSE, output |-> output]
ExecRaised == [raised |-> TRUE, output |-> <<>>]

\* CONFIG.commands: the show commands of the validators
show_version == "show version"
show_feature == "show feature"

show_nve_interface == "show interface nve1"

show_nve_peers == "show nve peers"
show_nve_vni == "show nve vni"
show_nve_vni_ingress == "show nve vni ingress-replication"
show_bgp_evpn_summary == "show bgp l2vpn evpn summary"
show_bgp_evpn_routes == "show bgp l2vpn evpn"

\* str(e) of the CommandExecutionError that execute_command raises for a
\* command: the message followed by "(Command: <command>)"
CommandExecutionError(command) ==
    [message |-> "Command execution failed: {str(e)}", command |-> command]

----------------------------------------------------------------------------
(* vxlan_utils.py: VXLANParser.parse_nve_peers *)

\* re.search(REGEX_PATTERNS['ip_address'], line).group(): the leftmost IP
\* literal of the line (the caller has checked that there is one)
FirstIp(line) ==
    line[CHOOSE i \in 1..Len(line) :
            /\ line[i] \in IpTokens
            /\ \A j \in 1..(i - 1) : line[j] \notin IpTokens]

HasIp(line) == \E i \in 1..Len(line) : line[i] \in IpTokens

\* the body of the loop over the lines: one peer per line that holds an IP
\* literal, Up when the line contains 'Up' and Down otherwise
RECURSIVE parse_nve_peers_from(_, _)
parse_nve_peers_from(lines, i) ==
    IF i > Len(lines) THEN <<>>
    ELSE (IF HasIp(lines[i])
          THEN <<[ip |-> FirstIp(lines[i]),
                  state |-> IF InLine("Up", lines[i]) THEN "Up" ELSE "Down"]>>
          ELSE <<>>) \o parse_nve_peers_from(lines, i + 1)

parse_nve_peers(output) == parse_nve_peers_from(output, 1)

----------------------------------------------------------------------------
(* vxlan_validators.py: InterfaceValidator.validate_nve_peers *)

\* [p for p in peers if p['state'] == 'Up']
RECURSIVE PeersInState(_, _, _)
PeersInState(peers, up, i) ==
    IF i > Len(peers) THEN <<>>
    ELSE (IF (peers[i].state = "Up") = up THEN <<peers[i]>> ELSE <<>>)
         \o PeersInState(peers, up, i + 1)

up_peers_of(peers) == PeersInState(peers, TRUE, 1)

down_peers_of(peers) == PeersInState(peers, FALSE, 1)

\* mutant of nve_peers_verdict: the all-down test is lost, so a list with no
\* peer up is reported like a partial outage
nve_peers_verdict_no_critical(peers) ==
    LET up_peers == up_peers_of(peers)
        total_peers == Len(peers)
        up_count == Len(up_peers)
    IN  IF up_count < total_peers
        THEN create_result(FALSE,
                           Msg("Only {up_count}/{total_peers} NVE peers are up",
                               <<up_count, total_peers>>),
                           [up_peers |-> up_peers, down_peers |-> down_peers_of(peers)],
                           "error")
        ELSE create_result(TRUE,
                           Msg("All {total_peers} NVE peers are up and healthy", <<total_peers>>),
                           [peers |-> peers, peer_count |-> total_peers], "info")

\* lines 272-308: the verdict on a non-empty peer list
nve_peers_verdict(peers) ==
    LET up_peers == up_peers_of(peers)
        total_peers == Len(peers)
        up_count == Len(up_peers)
    IN  IF up_count = 0
        THEN create_result(FALSE, Msg("All {total_peers} NVE peers are down", <<total_peers>>),
                           [peers |-> peers], "critical")
        ELSE IF up_count < total_peers
        THEN create_result(FALSE,
                           Msg("Only {up_count}/{total_peers} NVE peers are up",
                               <<up_count, total_peers>>),
                           [up_peers |-> up_peers, down_peers |-> down_peers_of(peers)],
                           "error")
        ELSE create_result(TRUE,
                           Msg("All {total_peers} NVE peers are up and healthy", <<total_peers>>),
                           [peers |-> peers, peer_count |-> total_peers], "info")

\* mutant of validate_nve_peers: the empty-table test is lost
validate_nve_peers_no_empty_test(exec) ==
    IF exec.raised
    THEN create_result(FALSE, Msg("NVE peer validation failed: {e}",
                           <<CommandExecutionError(show_nve_peers)>>), NoDetails, "error")
    ELSE IF ~InOutput("Peer-IP", exec.output)
    THEN create_result(TRUE,
                       Msg("No NVE peers configured (acceptable for single-node deployments)", <<>>),
                       NoDetails, "info")
    ELSE nve_peers_verdict(parse_nve_peers(exec.output))

validate_nve_peers(exec) ==
    IF exec.raised
    THEN create_result(FALSE, Msg("NVE peer validation failed: {e}",
                           <<CommandExecutionError(show_nve_peers)>>), NoDetails, "error")
    ELSE IF ~InOutput("Peer-IP", exec.output)
    THEN create_result(TRUE,
                       Msg("No NVE peers configured (acceptable for single-node deployments)", <<>>),
                       NoDetails, "info")
    ELSE LET peers == parse_nve_peers(exec.output)
         IN  IF peers = <<>>
             THEN create_result(FALSE, Msg("NVE peers table exists but no peers found", <<>>),
                                NoDetails, "warning")
             ELSE nve_peers_verdict(peers)

----------------------------------------------------------------------------
(* vxlan_utils.py: VXLANParser.parse_bgp_neighbors *)

\* \w+ : the tokens made of word characters only
WordTokens ==
    DigitTokens \cup {"Established", "established", "ESTABLISHED", "Idle", "Active"}

\* REGEX_PATTERNS['bgp_neighbor_state'] at position i of the line: an IP
\* literal, four numeric columns and a word
BgpMatchAt(line, i) ==
    /\ i + 5 <= Len(line)
    /\ line[i] \in IpTokens
    /\ \A k \in 1..4 : line[i + k] \in DigitTokens
    /\ line[i + 5] \in WordTokens

BgpMatches(line) == \E i \in 1..Len(line) : BgpMatchAt(line, i)

\* match.groups() of the leftmost match
BgpGroups(line) ==
    LET i == CHOOSE i \in 1..Len(line) :
                /\ BgpMatchAt(line, i)
                /\ \A j \in 1..(i - 1) : ~BgpMatchAt(line, j)
    IN  [ip |-> line[i], state |-> line[i + 5]]

RECURSIVE parse_bgp_neighbors_from(_, _)
parse_bgp_neighbors_from(lines, i) ==
    IF i > Len(lines) THEN <<>>
    ELSE (IF BgpMatches(lines[i]) THEN <<BgpGroups(lines[i])>> ELSE <<>>)
         \o parse_bgp_neighbors_from(lines, i + 1)

parse_bgp_neighbors(output) == parse_bgp_neighbors_from(output, 1)

----------------------------------------------------------------------------
(* vxlan_validators.py: BGPValidator.validate_bgp_evpn *)

\* [n for n in neighbors if n.state.lower() == 'established'] and its
\* complement
RECURSIVE NeighborsEstablished(_, _, _)
NeighborsEstablished(neighbors, est, i) ==
    IF i > Len(neighbors) THEN <<>>
    ELSE (IF (Lower(neighbors[i].state) = "established") = est
          THEN <<neighbors[i]>> ELSE <<>>)
         \o NeighborsEstablished(neighbors, est, i + 1)

established_of(neighbors) == NeighborsEstablished(neighbors, TRUE, 1)

down_neighbors_of(neighbors) == NeighborsEstablished(neighbors, FALSE, 1)

\* lines 530-567: the verdict on a non-empty neighbor list
bgp_evpn_verdict(neighbors) ==
    LET established == established_of(neighbors)
        total == Len(neighbors)
        established_count == Len(established)
    IN  IF established_count = 0
        THEN create_result(FALSE,
                           Msg("No BGP EVPN neighbors in established state (0/{total})", <<total>>),
                           [neighbors |-> neighbors], "critical")
        ELSE IF established_count < total
        THEN create_result(FALSE,
                           Msg("Only {established_count}/{total} BGP EVPN neighbors established",
                               <<established_count, total>>),
                           [established |-> established,
                            down |-> down_neighbors_of(neighbors)],
                           "error")
        ELSE create_result(TRUE,
                           Msg("All {total} BGP EVPN neighbors are established", <<total>>),
                           [neighbors |-> neighbors,
                            established_count |-> established_count], "info")

validate_bgp_evpn(exec) ==
    IF exec.raised
    THEN create_result(FALSE, Msg("BGP EVPN validation failed: {e}",
                           <<CommandExecutionError(show_bgp_evpn_summary)>>), NoDetails, "error")
    ELSE IF \/ PhraseInOutputLower(<<"bgp", "is", "not", "running">>, exec.output)
            \/ PhraseInOutputLower(<<"invalid", "command">>, exec.output)
    THEN create_result(FALSE, Msg("BGP is not running or EVPN not configured", <<>>),
                       NoDetails, "error")
    ELSE LET neighbors == parse_bgp_neighbors(exec.output)
         IN  IF neighbors = <<>>
             THEN create_result(FALSE, Msg("No BGP EVPN neighbors configured", <<>>),
                                NoDetails, "error")
             ELSE bgp_evpn_verdict(neighbors)

----------------------------------------------------------------------------
(* vxlan_utils.py: VNIInfo and VXLANParser.parse_vni_info *)

\* Optional[T]: None is the empty sequence, a value x the sequence <<x>>
None == <<>>

Some(x) == <<x>>

\* int(text) of a run of digits
IntOf(tok) ==
    CASE tok = "4" -> 4
      [] tok = "10" -> 10
      [] tok = "100" -> 100
      [] tok = "0100" -> 100
      [] tok = "10100" -> 10100
      [] tok = "65000" -> 65000
      [] OTHER -> 0

\* \w+ at the start of a token: its leading word characters
WordPrefix(tok) ==
    CASE tok = "VLAN:" -> "VLAN"
      [] tok = "VRF:" -> "VRF"
      [] OTHER -> tok

\* REGEX_PATTERNS['vni_number'], ^\s*(\d+): the line starts with digits
VniMatches(line) == Len(line) > 0 /\ line[1] \in DigitTokens \cup {"0100"}

\* the token that follows the leftmost `label` token and satisfies the
\* pattern after it, as Optional
RECURSIVE AfterLabel(_, _, _, _)
AfterLabel(line, label, allowed, i) ==
    IF i >= Len(line) THEN None
    ELSE IF line[i] = label /\ line[i + 1] \in allowed THEN Some(line[i + 1])
    ELSE AfterLabel(line, label, allowed, i + 1)

\* the tokens that start with a word character
WordStartTokens ==
    WordTokens \cup {"Tenant1", "Up", "Down", "L2", "L3", "VLAN:", "VRF:", "0100"}

\* VNIInfo(vni=vni_num, type=vni_type) with vlan, vrf and state filled in
\* from the same line
parse_vni_line(line) ==
    LET vlan_match == AfterLabel(line, "VLAN:", DigitTokens \cup {"0100"}, 1)
        vrf_match == AfterLabel(line, "VRF:", WordStartTokens, 1)
    IN  [vni |-> IntOf(line[1]),
         type |-> IF InLine("L3", line) THEN "L3" ELSE "L2",
         replication |-> None,
         vlan |-> IF vlan_match # None THEN Some(IntOf(vlan_match[1])) ELSE None,
         vrf |-> IF vrf_match # None THEN Some(WordPrefix(vrf_match[1])) ELSE None,
         state |-> IF InLine("Up", line) THEN Some("Up")
                   ELSE IF InLine("Down", line) THEN Some("Down")
                   ELSE None]

RECURSIVE parse_vni_info_from(_, _)
parse_vni_info_from(lines, i) ==
    IF i > Len(lines) THEN <<>>
    ELSE (IF VniMatches(lines[i]) THEN <<parse_vni_line(lines[i])>> ELSE <<>>)
         \o parse_vni_info_from(lines, i + 1)

parse_vni_info(output) == parse_vni_info_from(output, 1)

\* the monolithic script's anchor, ^\s*(\d+)\s+(\w+): the line starts with
\* digits, white space and a word
MonolithicVniMatches(line) ==
    /\ Len(line) > 1
    /\ line[1] \in DigitTokens \cup {"0100"}
    /\ line[2] \in WordStartTokens

\* VniInfo(vni=vni_num, type=vni_type) of the monolithic script, whose state
\* field defaults to "Unknown"
monolithic_parse_vni_line(line) ==
    LET vlan_match == AfterLabel(line, "VLAN:", DigitTokens \cup {"0100"}, 1)
        vrf_match == AfterLabel(line, "VRF:", WordStartTokens, 1)
    IN  [vni |-> IntOf(line[1]),
         type |-> WordPrefix(line[2]),
         vlan |-> IF vlan_match # None THEN Some(IntOf(vlan_match[1])) ELSE None,
         vrf |-> IF vrf_match # None THEN Some(WordPrefix(vrf_match[1])) ELSE None,
         state |-> IF InLine("Up", line) THEN "Up"
                   ELSE IF InLine("Down", line) THEN "Down"
                   ELSE "Unknown"]

\* VxlanParser.parse_vni_information of the monolithic script
RECURSIVE parse_vni_information(_)
parse_vni_information(nve_vni_output) ==
    IF nve_vni_output = <<>> THEN <<>>
    ELSE (IF MonolithicVniMatches(Head(nve_vni_output))
          THEN <<monolithic_parse_vni_line(Head(nve_vni_output))>> ELSE <<>>)
         \o parse_vni_information(Tail(nve_vni_output))

----------------------------------------------------------------------------
(* vxlan_validators.py: VNIValidator._validate_vni_usage *)

\* a call that raised instead of returning
Raised(exc) == [raised |-> exc]

IsRaised(r) == "raised" \in DOMAIN r

\* (current / maximum) * 100 as the exact fraction num/den; the division
\* raises ZeroDivisionError when maximum is 0
Percentage(current, maximum) == [num |-> current * 100, den |-> maximum]

\* percentage >= cut
PctAtLeast(pct, cut) ==
    IF pct.den > 0 THEN pct.num >= cut * pct.den ELSE pct.num <= cut * pct.den

\* the cut points written in _validate_vni_usage
VniUsageCriticalPct == 90

VniUsageWarningPct == 75

_validate_vni_usage(current_vnis, max_vnis) ==
    IF max_vnis = 0 THEN Raised("ZeroDivisionError")
    ELSE LET percentage == Percentage(current_vnis, max_vnis)
             details == [percentage |-> percentage, current |-> current_vnis,
                         max |-> max_vnis]
         IN  IF PctAtLeast(percentage, VniUsageCriticalPct)
             THEN create_result(FALSE,
                     Msg("Critical VNI usage: {current_vnis}/{max_vnis} ({percentage:.1f}%)",
                         <<current_vnis, max_vnis>>),
                     details, "critical")
             ELSE IF PctAtLeast(percentage, VniUsageWarningPct)
             THEN create_result(FALSE,
                     Msg("High VNI usage: {current_vnis}/{max_vnis} ({percentage:.1f}%)",
                         <<current_vnis, max_vnis>>),
                     details, "warning")
             ELSE create_result(TRUE,
                     Msg("VNI usage within acceptable limits: {current_vnis}/{max_vnis} ({percentage:.1f}%)",
                         <<current_vnis, max_vnis>>),
                     details, "info")

----------------------------------------------------------------------------
(* vxlan_validators.py: VNIValidator.validate_vni_configuration *)

\* mutant of vni_issues_of: the state test is `!= 'Up'`, so a record whose
\* state is unset counts as Down
vni_issues_of_not_up(vni) ==
    (IF vni.type = "L2" /\ vni.vlan = None
     THEN <<Msg("L2 VNI {vni.vni} missing VLAN association", <<vni.vni>>)>>
     ELSE IF vni.type = "L3" /\ vni.vrf = None
     THEN <<Msg("L3 VNI {vni.vni} missing VRF association", <<vni.vni>>)>>
     ELSE <<>>)
    \o (IF vni.state # Some("Up")
        THEN <<Msg("VNI {vni.vni} is in Down state", <<vni.vni>>)>>
        ELSE <<>>)

\* the issues one record adds, in the order the loop body appends them
vni_issues_of(vni) ==
    (IF vni.type = "L2" /\ vni.vlan = None
     THEN <<Msg("L2 VNI {vni.vni} missing VLAN association", <<vni.vni>>)>>
     ELSE IF vni.type = "L3" /\ vni.vrf = None
     THEN <<Msg("L3 VNI {vni.vni} missing VRF association", <<vni.vni>>)>>
     ELSE <<>>)
    \o (IF vni.state = Some("Down")
        THEN <<Msg("VNI {vni.vni} is in Down state", <<vni.vni>>)>>
        ELSE <<>>)

\* issues after the loop over vnis[i..]
RECURSIVE vni_issues_from(_, _)
vni_issues_from(vnis, i) ==
    IF i > Len(vnis) THEN <<>>
    ELSE vni_issues_of(vnis[i]) \o vni_issues_from(vnis, i + 1)

\* l2_vnis / l3_vnis after the loop
RECURSIVE VnisOfType(_, _, _)
VnisOfType(vnis, type, i) ==
    IF i > Len(vnis) THEN <<>>
    ELSE (IF vnis[i].type = type THEN <<vnis[i]>> ELSE <<>>)
         \o VnisOfType(vnis, type, i + 1)

VniValidationFailed(e) ==
    create_result(FALSE, Msg("VNI validation failed: {e}", <<e>>), NoDetails, "error")

\* lines 347-402: the verdict on a non-empty VNI list
vni_configuration_verdict(vnis, max_vnis) ==
    LET issues == vni_issues_from(vnis, 1)
        l2_vnis == VnisOfType(vnis, "L2", 1)
        l3_vnis == VnisOfType(vnis, "L3", 1)
        total_vnis == Len(vnis)
        usage_result == _validate_vni_usage(total_vnis, max_vnis)
    IN  IF IsRaised(usage_result) THEN VniValidationFailed(usage_result)
        ELSE IF issues # <<>>
        THEN create_result(FALSE,
                Msg("VNI configuration issues found: {len(issues)} problems", <<Len(issues)>>),
                [issues |-> issues, l2_vni_count |-> Len(l2_vnis),
                 l3_vni_count |-> Len(l3_vnis), total_vnis |-> total_vnis],
                "error")
        ELSE create_result(usage_result.passed,
                Msg("Found {total_vnis} properly configured VNIs ({len(l2_vnis)} L2, {len(l3_vnis)} L3)",
                    <<total_vnis, Len(l2_vnis), Len(l3_vnis)>>),
                [l2_vnis |-> l2_vnis, l3_vnis |-> l3_vnis, total_vnis |-> total_vnis,
                 usage_percentage |-> usage_result.details.percentage],
                usage_result.severity)

\* mutant of validate_vni_configuration: an empty parse is reported like a
\* missing table
validate_vni_configuration_empty_warning(exec, max_vnis) ==
    IF exec.raised THEN VniValidationFailed(CommandExecutionError(show_nve_vni))
    ELSE IF ~InOutput("VNI", exec.output) \/ parse_vni_info(exec.output) = <<>>
    THEN create_result(FALSE, Msg("No VNIs configured", <<>>), NoDetails, "warning")
    ELSE vni_configuration_verdict(parse_vni_info(exec.output), max_vnis)

validate_vni_configuration(exec, max_vnis) ==
    IF exec.raised THEN VniValidationFailed(CommandExecutionError(show_nve_vni))
    ELSE IF ~InOutput("VNI", exec.output)
    THEN create_result(FALSE, Msg("No VNIs configured", <<>>), NoDetails, "warning")
    ELSE LET vnis == parse_vni_info(exec.output)
         IN  IF vnis = <<>>
             THEN create_result(FALSE, Msg("VNI section exists but no VNIs parsed", <<>>),
                                NoDetails, "error")
             ELSE vni_configuration_verdict(vnis, max_vnis)

----------------------------------------------------------------------------
(* vxlan_utils.py: VXLANValidator.validate_vni_configuration and            *)
(* VXLANValidator.validate_resource_usage (they return a pair, here a      *)
(* record: [passed, issues] and [passed, level, percentage])               *)

utils_vni_issues_of(vni) ==
    (IF vni.type = "L2" /\ vni.vlan = None
     THEN <<Msg("L2 VNI {vni.vni} missing VLAN association", <<vni.vni>>)>> ELSE <<>>)
    \o (IF vni.type = "L3" /\ vni.vrf = None
        THEN <<Msg("L3 VNI {vni.vni} missing VRF association", <<vni.vni>>)>> ELSE <<>>)
    \o (IF vni.state = Some("Down")
        THEN <<Msg("VNI {vni.vni} is in Down state", <<vni.vni>>)>> ELSE <<>>)

RECURSIVE utils_vni_issues_from(_, _)
utils_vni_issues_from(vnis, i) ==
    IF i > Len(vnis) THEN <<>>
    ELSE utils_vni_issues_of(vnis[i]) \o utils_vni_issues_from(vnis, i + 1)

utils_validate_vni_configuration(vnis) ==
    IF vnis = <<>>
    THEN [passed |-> FALSE, issues |-> <<Msg("No VNIs configured", <<>>)>>]
    ELSE LET issues == utils_vni_issues_from(vnis, 1)
         IN  [passed |-> Len(issues) = 0, issues |-> issues]

\* the thresholds validate_resource_usage picks for a resource type
ResourceWarningDefault == 75

ResourceCriticalDefault == 90

ResourceWarningVni == 70

ResourceCriticalVni == 85

warning_threshold(resource_type) ==
    IF resource_type = "vni" THEN ResourceWarningVni ELSE ResourceWarningDefault

critical_threshold(resource_type) ==
    IF resource_type = "vni" THEN ResourceCriticalVni ELSE ResourceCriticalDefault

validate_resource_usage(resource_type, current, maximum) ==
    IF maximum = 0 THEN Raised("ZeroDivisionError")
    ELSE LET percentage == Percentage(current, maximum)
         IN  IF PctAtLeast(percentage, critical_threshold(resource_type))
             THEN [passed |-> FALSE, level |-> "critical", percentage |-> percentage]
             ELSE IF PctAtLeast(percentage, warning_threshold(resource_type))
             THEN [passed |-> FALSE, level |-> "warning", percentage |-> percentage]
             ELSE [passed |-> TRUE, level |-> "ok", percentage |-> percentage]

----------------------------------------------------------------------------
(* Calls of one validator on one command outcome *)

\* `ret` before the call has returned
NoReturn == create_result(FALSE, Msg("(not returned)", <<>>), NoDetails, "none")

Call(fn, arg) == [fn |-> fn, arg |-> arg]

\* `show nve peers`: the table header, peer rows and a separator row
PeerHeader == <<"Interface", "Peer-IP", "State", "Uptime">>

PeerDataLines ==
    {<<"nve1", ip, st>> : ip \in IpTokens, st \in {"Up", "Down"}}
        \cup {<<"---------">>}

PeerOutputs ==
    LET bodies == SeqUpTo(PeerDataLines, MaxPeerLines)
    IN  bodies \cup {<<PeerHeader>> \o b : b \in bodies}

\* `show bgp l2vpn evpn summary`: neighbor rows (an IP literal, four numeric
\* columns and the state), a row with too few columns, and the two error
\* banners of the device
BgpDataLines ==
    {<<ip, "4", "65000", "10", "10", st>> :
        ip \in IpTokens, st \in {"Established", "established", "Idle"}}
        \cup {<<"10.0.0.1", "4", "65000", "Idle">>,
              <<"BGP", "is", "not", "running">>,
              <<"Invalid", "command">>}

BgpOutputs == SeqUpTo(BgpDataLines, MaxBgpLines)

Execs(outputs) == {ExecOk(o) : o \in outputs} \cup {ExecRaised}

StateCalls ==
    {Call("validate_nve_peers", e) : e \in Execs(PeerOutputs)}
        \cup {Call("validate_bgp_evpn", e) : e \in Execs(BgpOutputs)}

\* CONFIG.thresholds.max_vni_count as the dataclass sets it
DefaultMaxVniCount == 12000

InitState ==
    /\ max_vni_count = DefaultMaxVniCount
    /\ call \in StateCalls
    /\ ret = NoReturn
    /\ rpc = "ready"
    /\ NoRun

ValidateNvePeers ==
    /\ rpc = "ready"
    /\ call.fn = "validate_nve_peers"
    /\ ret' = validate_nve_peers(call.arg)
    /\ rpc' = "returned"
    /\ UNCHANGED <<max_vni_count, call, runvars>>

ValidateBgpEvpn ==
    /\ rpc = "ready"
    /\ call.fn = "validate_bgp_evpn"
    /\ ret' = validate_bgp_evpn(call.arg)
    /\ rpc' = "returned"
    /\ UNCHANGED <<max_vni_count, call, runvars>>

NextState == ValidateNvePeers \/ ValidateBgpEvpn

SpecState == InitState /\ [][NextState]_vars

----------------------------------------------------------------------------
(* Claims on the state-majority rule and the peers policy *)

Returned(fn) == rpc = "returned" /\ call.fn = fn

\* the peer list validate_nve_peers reached its verdict on
PeersParsed ==
    /\ Returned("validate_nve_peers")
    /\ ~call.arg.raised
    /\ InOutput("Peer-IP", call.arg.output)
    /\ parse_nve_peers(call.arg.output) # <<>>

\* the neighbor list validate_bgp_evpn reached its verdict on
NeighborsParsed ==
    /\ Returned("validate_bgp_evpn")
    /\ ~call.arg.raised
    /\ ~PhraseInOutputLower(<<"bgp", "is", "not", "running">>, call.arg.output)
    /\ ~PhraseInOutputLower(<<"invalid", "command">>, call.arg.output)
    /\ parse_bgp_neighbors(call.arg.output) # <<>>

\* the three outcomes of the rule for `recs`, of which Healthy(i) are healthy,
\* given the list `down` the result carries as unhealthy
MajorityOutcome(recs, healthy, down) ==
    LET total == Len(recs)
        up == Cardinality(healthy)
        isCritical == ~ret.passed /\ ret.severity = "critical"
        isError == /\ ~ret.passed /\ ret.severity = "error"
                   /\ ret.message.args = <<up, total>>
        isPassed == ret.passed
    IN  /\ (up = 0) => isCritical
        /\ (0 < up /\ up < total) =>
              /\ isError
              /\ Len(down) = total - up
              /\ \A i \in 1..total : i \notin healthy =>
                    \E j \in 1..Len(down) : down[j] = recs[i]
              /\ \A j \in 1..Len(down) :
                    \E i \in 1..total : i \notin healthy /\ down[j] = recs[i]
        /\ (up = total) => isPassed
        /\ \/ isCritical /\ ~isPassed /\ ~(ret.severity = "error")
           \/ ~ret.passed /\ ret.severity = "error" /\ ~isCritical
           \/ isPassed /\ ~isCritical

\* C4: state-majority rule. For a non-empty parsed list of NVE peers
\* (healthy = state 'Up') or BGP EVPN neighbors (healthy = state equal to
\* 'established' ignoring case): no healthy record gives passed=false,
\* severity=critical; some but not all gives passed=false, severity=error, a
\* message that interpolates up/total and details listing exactly the unhealthy
\* records; all healthy gives passed=true; exactly one outcome applies.
C4_StateMajority ==
    /\ PeersParsed =>
          LET peers == parse_nve_peers(call.arg.output)
              healthy == {i \in 1..Len(peers) : peers[i].state = "Up"}
          IN  /\ MajorityOutcome(peers, healthy,
                    IF "down_peers" \in DOMAIN ret.details
                    THEN ret.details.down_peers ELSE <<>>)
              /\ (0 < Cardinality(healthy) /\ Cardinality(healthy) < Len(peers)) =>
                    ret.message.fmt = "Only {up_count}/{total_peers} NVE peers are up"
    /\ NeighborsParsed =>
          LET neighbors == parse_bgp_neighbors(call.arg.output)
              healthy == {i \in 1..Len(neighbors) :
                            neighbors[i].state \in
                                {"established", "Established", "ESTABLISHED"}}
          IN  /\ MajorityOutcome(neighbors, healthy,
                    IF "down" \in DOMAIN ret.details
                    THEN ret.details.down ELSE <<>>)
              /\ (0 < Cardinality(healthy) /\ Cardinality(healthy) < Len(neighbors)) =>
                    ret.message.fmt =
                        "Only {established_count}/{total} BGP EVPN neighbors established"

\* the specification's example: peers [{10.0.0.1, Up}, {10.0.0.2, Down}] give
\* severity=error with a message that references 1/2
C4_Witness ==
    /\ PeersParsed
    /\ parse_nve_peers(call.arg.output) =
          <<[ip |-> "10.0.0.1", state |-> "Up"], [ip |-> "10.0.0.2", state |-> "Down"]>>
    /\ ~ret.passed
    /\ ret.severity = "error"
    /\ ret.message.args = <<1, 2>>
    /\ ret.details.down_peers = <<[ip |-> "10.0.0.2", state |-> "Down"]>>

\* C5 as claimed: whenever zero peer records are parsed from the output,
\* NVE peer validation returns passed=true with severity=info.
C5_ZeroPeersPass ==
    (/\ Returned("validate_nve_peers")
     /\ ~call.arg.raised
     /\ parse_nve_peers(call.arg.output) = <<>>)
        => (ret.passed /\ ret.severity = "info")

\* C5 amended: an output without the 'Peer-IP' table header gives passed=true
\* with severity=info whatever else it holds; an output that has the header
\* but from which zero peer records are parsed gives passed=false with
\* severity=warning.
C5_PeersPolicy ==
    (Returned("validate_nve_peers") /\ ~call.arg.raised) =>
        /\ ~InOutput("Peer-IP", call.arg.output) =>
              (ret.passed /\ ret.severity = "info")
        /\ (/\ InOutput("Peer-IP", call.arg.output)
            /\ parse_nve_peers(call.arg.output) = <<>>) =>
              (~ret.passed /\ ret.severity = "warning")

\* the header alone: a peers table with no rows
C5_Witness ==
    /\ Returned("validate_nve_peers")
    /\ ~call.arg.raised
    /\ call.arg.output = <<PeerHeader>>
    /\ ~ret.passed
    /\ ret.severity = "warning"

----------------------------------------------------------------------------
(* Calls of the VNI validators *)

\* `show nve vni`: the table header, VNI rows built from an identifier, a
\* type, an optional VLAN or VRF and a state, rows that carry neither type nor
\* state, rows with a zero-padded identifier, and a row in the device's
\* own layout, which starts with the interface name
VniHeader == <<"VNI", "Type", "Mapping", "State">>

VniDataLines ==
    {<<"10100">> \o t \o a \o st :
        t \in {<<"L2">>, <<"L3">>},
        a \in {<<>>, <<"VLAN:", "100">>, <<"VRF:", "Tenant1">>},
        st \in {<<"Up">>, <<"Down">>}}
        \cup {<<"10100">>,
              <<"10100", "VLAN:", "100">>,
              <<"0100", "L2">>,
              <<"0100", "L3", "VRF:", "Tenant1", "Down">>,
              <<"nve1", "10100", "L2", "Up">>}

VniOutputs ==
    LET bodies == SeqUpTo(VniDataLines, MaxVniLines)
    IN  bodies \cup {<<VniHeader>> \o b : b \in bodies}

\* the values CONFIG.thresholds.max_vni_count can hold: the default, or
\* int(os.getenv("VXLAN_MAX_VNI_COUNT")), which is not range-checked
MaxVniCounts == {DefaultMaxVniCount, OverrideMaxVniCount, 0}

VniCalls ==
    {Call("validate_vni_configuration", e) : e \in Execs(VniOutputs)}
        \cup {Call("VXLANValidator.validate_vni_configuration", parse_vni_info(o)) :
                o \in VniOutputs}
        \cup {Call("VXLANParser.parse_vni_info", o) : o \in VniOutputs}
        \cup {Call("VxlanParser.parse_vni_information", o) : o \in VniOutputs}

InitVni ==
    /\ max_vni_count \in MaxVniCounts
    /\ call \in VniCalls
    /\ ret = NoReturn
    /\ rpc = "ready"
    /\ NoRun

ValidateVniConfiguration ==
    /\ rpc = "ready"
    /\ call.fn = "validate_vni_configuration"
    /\ ret' = validate_vni_configuration(call.arg, max_vni_count)
    /\ rpc' = "returned"
    /\ UNCHANGED <<max_vni_count, call, runvars>>

UtilsValidateVniConfiguration ==
    /\ rpc = "ready"
    /\ call.fn = "VXLANValidator.validate_vni_configuration"
    /\ ret' = utils_validate_vni_configuration(call.arg)
    /\ rpc' = "returned"
    /\ UNCHANGED <<max_vni_count, call, runvars>>

\* VXLANParser.parse_vni_info called on its own
ParseVniInfo ==
    /\ rpc = "ready"
    /\ call.fn = "VXLANParser.parse_vni_info"
    /\ ret' = [vnis |-> parse_vni_info(call.arg)]
    /\ rpc' = "returned"
    /\ UNCHANGED <<max_vni_count, call, runvars>>

\* VxlanParser.parse_vni_information of the monolithic script
ParseVniInformation ==
    /\ rpc = "ready"
    /\ call.fn = "VxlanParser.parse_vni_information"
    /\ ret' = [vnis |-> parse_vni_information(call.arg)]
    /\ rpc' = "returned"
    /\ UNCHANGED <<max_vni_count, call, runvars>>

NextVni ==
    \/ ValidateVniConfiguration
    \/ UtilsValidateVniConfiguration
    \/ ParseVniInfo
    \/ ParseVniInformation

SpecVni == InitVni /\ [][NextVni]_vars

----------------------------------------------------------------------------
(* Claims on VNI validation *)

\* validate_vni_configuration returned on an output the device produced
VniReturned == Returned("validate_vni_configuration") /\ ~call.arg.raised

\* ... and reached the parsed, non-empty VNI list
VnisParsed ==
    /\ VniReturned
    /\ InOutput("VNI", call.arg.output)
    /\ parse_vni_info(call.arg.output) # <<>>

Clean(vnis) ==
    \A i \in 1..Len(vnis) :
        /\ vnis[i].type = "L2" => vnis[i].vlan # None
        /\ vnis[i].type = "L3" => vnis[i].vrf # None
        /\ vnis[i].state # Some("Down")

\* C7 as claimed: for every clean VNI collection, VNI validation returns
\* passed=true.
C7_CleanPasses ==
    /\ (VniReturned /\ InOutput("VNI", call.arg.output)
        /\ Clean(parse_vni_info(call.arg.output))) => ret.passed
    /\ (Returned("VXLANValidator.validate_vni_configuration") /\ Clean(call.arg))
          => ret.passed

\* usage of n VNIs is below the warning cut point of 75 percent of maximum
BelowWarning(n, maximum) ==
    \/ maximum > 0 /\ n * 100 < 75 * maximum
    \/ maximum < 0 /\ n * 100 > 75 * maximum

\* C7 amended: for every non-empty clean VNI collection the association rule
\* finds no issue (VXLANValidator.validate_vni_configuration returns
\* passed=true with an empty issue list, VNIValidator's result carries no
\* issue list), and VNIValidator.validate_vni_configuration returns
\* passed=true if and only if the usage-threshold rule passes for the number
\* of VNIs, that is, the count is below 75 percent of a non-zero
\* max_vni_count. An empty collection is never passed.
C7_CleanNonEmpty ==
    /\ VnisParsed =>
          LET vnis == parse_vni_info(call.arg.output)
          IN  Clean(vnis) =>
                /\ ret.passed <=> BelowWarning(Len(vnis), max_vni_count)
                /\ "issues" \notin DOMAIN ret.details
    /\ (VniReturned /\ parse_vni_info(call.arg.output) = <<>>) => ~ret.passed
    /\ Returned("VXLANValidator.validate_vni_configuration") =>
          /\ (call.arg # <<>> /\ Clean(call.arg)) => (ret.passed /\ ret.issues = <<>>)
          /\ call.arg = <<>> => ~ret.passed

\* two clean records, an L2 one with its VLAN and an L3 one with its VRF, pass
C7_Witness ==
    /\ VnisParsed
    /\ LET vnis == parse_vni_info(call.arg.output)
       IN  /\ Len(vnis) = 2
           /\ Clean(vnis)
           /\ vnis[1].type = "L2"
           /\ vnis[2].type = "L3"
    /\ max_vni_count = DefaultMaxVniCount
    /\ ret.passed

\* one entry for each L2 record without a VLAN, each L3 record without a VRF
\* and each record in state Down, in record order
RECURSIVE ExpectedIssues(_, _)
ExpectedIssues(vnis, i) ==
    IF i > Len(vnis) THEN <<>>
    ELSE (IF vnis[i].type = "L2" /\ vnis[i].vlan = None
          THEN <<Msg("L2 VNI {vni.vni} missing VLAN association", <<vnis[i].vni>>)>>
          ELSE <<>>)
         \o (IF vnis[i].type = "L3" /\ vnis[i].vrf = None
             THEN <<Msg("L3 VNI {vni.vni} missing VRF association", <<vnis[i].vni>>)>>
             ELSE <<>>)
         \o (IF vnis[i].state = Some("Down")
             THEN <<Msg("VNI {vni.vni} is in Down state", <<vnis[i].vni>>)>>
             ELSE <<>>)
         \o ExpectedIssues(vnis, i + 1)

\* C8: VNI validation inspects every record; the issue list holds exactly one
\* entry per L2 record without a VLAN, per L3 record without a VRF and per
\* record in state Down, in record order, and whenever that list is non-empty
\* the single result is passed=false, severity=error and carries the whole
\* list.
C8_AllIssuesCollected ==
    /\ VnisParsed =>
          LET expected == ExpectedIssues(parse_vni_info(call.arg.output), 1)
          IN  expected # <<>> =>
                /\ ~ret.passed
                /\ ret.severity = "error"
                /\ "issues" \in DOMAIN ret.details
                /\ ret.details.issues = expected
    /\ (Returned("VXLANValidator.validate_vni_configuration") /\ call.arg # <<>>) =>
          ret.issues = ExpectedIssues(call.arg, 1)

\* C8 where the configuration is valid (max_vni_count is not 0)
C8_AllIssuesCollectedValidConfig == max_vni_count # 0 => C8_AllIssuesCollected

----------------------------------------------------------------------------
(* Calls of the usage-threshold rules *)

\* CONFIG.thresholds.max_peer_count as the dataclass sets it
DefaultMaxPeerCount == 500

\* VNI counts: the small ones and the ones around the cut points of the
\* default maximum
UsageCounts ==
    0..MaxSmallCount
        \cup {8399, 8400, 8999, 9000, 9500, 10199, 10200, 10799, 10800, 11000, 12000}

UsageCalls ==
    {Call("_validate_vni_usage", c) : c \in UsageCounts}
        \cup {Call("validate_resource_usage",
                   [resource_type |-> t, current |-> c, maximum |-> m]) :
                t \in {"vni", "peer"}, c \in UsageCounts,
                m \in MaxVniCounts \cup {DefaultMaxPeerCount}}
        \cup {Call("calculate_percentage", [current |-> c, maximum |-> m]) :
                c \in UsageCounts, m \in MaxVniCounts \cup {DefaultMaxPeerCount}}

InitUsage ==
    /\ call \in UsageCalls
    /\ max_vni_count \in
          IF call.fn = "_validate_vni_usage" THEN MaxVniCounts ELSE {DefaultMaxVniCount}
    /\ ret = NoReturn
    /\ rpc = "ready"
    /\ NoRun

ValidateVniUsage ==
    /\ rpc = "ready"
    /\ call.fn = "_validate_vni_usage"
    /\ ret' = _validate_vni_usage(call.arg, max_vni_count)
    /\ rpc' = "returned"
    /\ UNCHANGED <<max_vni_count, call, runvars>>

ValidateResourceUsage ==
    /\ rpc = "ready"
    /\ call.fn = "validate_resource_usage"
    /\ ret' = validate_resource_usage(call.arg.resource_type, call.arg.current,
                                      call.arg.maximum)
    /\ rpc' = "returned"
    /\ UNCHANGED <<max_vni_count, call, runvars>>

\* vxlan_utils.calculate_percentage: 0.0 for a zero maximum
calculate_percentage(current, maximum) ==
    IF maximum = 0 THEN [num |-> 0, den |-> 1] ELSE Percentage(current, maximum)

CalculatePercentage ==
    /\ rpc = "ready"
    /\ call.fn = "calculate_percentage"
    /\ ret' = calculate_percentage(call.arg.current, call.arg.maximum)
    /\ rpc' = "returned"
    /\ UNCHANGED <<max_vni_count, call, runvars>>

NextUsage == ValidateVniUsage \/ ValidateResourceUsage \/ CalculatePercentage

SpecUsage == InitUsage /\ [][NextUsage]_vars

----------------------------------------------------------------------------
(* Claims on the usage-threshold rule *)

\* the tier the claimed rule gives `current` of `maximum`, with cut points 75
\* and 90: "critical", "warning" or "ok"
ClaimedTier(current, maximum) ==
    IF current * 100 >= 90 * maximum THEN "critical"
    ELSE IF current * 100 >= 75 * maximum THEN "warning"
    ELSE "ok"

\* C9: resource-threshold rule for VNI usage. With percentage = current /
\* maximum * 100 and cut points 75 and 90 the result is passed=false,
\* severity=critical from 90 percent on, passed=false, severity=warning from
\* 75 to below 90 percent, and passed=true otherwise; every current >= 0 gets
\* exactly one of the three outcomes.
C9_VniUsageTiers ==
    /\ Returned("_validate_vni_usage") =>
          /\ ~IsRaised(ret)
          /\ LET tier == ClaimedTier(call.arg, max_vni_count)
             IN  /\ tier = "critical" => (~ret.passed /\ ret.severity = "critical")
                 /\ tier = "warning" => (~ret.passed /\ ret.severity = "warning")
                 /\ tier = "ok" => ret.passed
    /\ (Returned("validate_resource_usage") /\ call.arg.resource_type = "vni") =>
          /\ ~IsRaised(ret)
          /\ LET tier == ClaimedTier(call.arg.current, call.arg.maximum)
             IN  /\ ret.level = tier
                 /\ ret.passed <=> tier = "ok"

\* C9 for VNIValidator._validate_vni_usage under a positive max_vni_count
C9_VniUsageTiersValidator ==
    (Returned("_validate_vni_usage") /\ max_vni_count > 0) =>
        LET tier == ClaimedTier(call.arg, max_vni_count)
        IN  /\ tier = "critical" => (~ret.passed /\ ret.severity = "critical")
            /\ tier = "warning" => (~ret.passed /\ ret.severity = "warning")
            /\ tier = "ok" => ret.passed

----------------------------------------------------------------------------
(* `show version`: the version parsers and the platform rule *)

MaxVersionLines == 2

\* what \d+\.\d+(?:\.\d+)? matches at the start of a token: the major number,
\* the digits of the minor number, and whether a third component follows
VersionOf(tok) ==
    CASE tok = "9.3(5)" -> Some([major |-> 9, minor |-> <<3>>, patch |-> FALSE])
      [] tok = "7.0(3)I7(6)" -> Some([major |-> 7, minor |-> <<0>>, patch |-> FALSE])
      [] tok = "6.2(2)" -> Some([major |-> 6, minor |-> <<2>>, patch |-> FALSE])
      [] tok = "6.10" -> Some([major |-> 6, minor |-> <<1, 0>>, patch |-> FALSE])
      [] tok = "9.3.10" -> Some([major |-> 9, minor |-> <<3>>, patch |-> TRUE])
      [] OTHER -> None

\* float("<major>.<minor digits>"), in hundredths
ToFloat(major, minor) ==
    major * 100 + minor[1] * 10 + (IF Len(minor) > 1 THEN minor[2] ELSE 0)

\* the output as re.search sees it: \s+ also matches the line breaks
RECURSIVE Flatten(_)
Flatten(output) ==
    IF output = <<>> THEN <<>> ELSE Head(output) \o Flatten(Tail(output))

\* the positions where 'system:\s+version\s+(\d+\.\d+)' matches
VersionMatches(toks, ignorecase) ==
    {i \in 1..(Len(toks) - 2) :
        /\ IF ignorecase THEN Lower(toks[i]) = "system:" ELSE toks[i] = "system:"
        /\ IF ignorecase THEN Lower(toks[i + 1]) = "version" ELSE toks[i + 1] = "version"
        /\ VersionOf(toks[i + 2]) # None}

\* the group of the leftmost match
VersionGroup(toks, ignorecase) ==
    LET i == CHOOSE k \in VersionMatches(toks, ignorecase) :
                 \A j \in VersionMatches(toks, ignorecase) : k <= j
    IN  VersionOf(toks[i + 2])[1]

\* vxlan_utils.VXLANParser.parse_nxos_version
parse_nxos_version(output) ==
    LET toks == Flatten(output)
    IN  IF VersionMatches(toks, FALSE) = {} THEN None
        ELSE LET g == VersionGroup(toks, FALSE) IN Some(ToFloat(g.major, g.minor))

\* the monolithic VxlanParser.parse_nxos_version: case-insensitive search, the
\* group may carry a third component, the first two parts are kept
monolithic_parse_nxos_version(output) ==
    LET toks == Flatten(output)
    IN  IF VersionMatches(toks, TRUE) = {} THEN None
        ELSE LET g == VersionGroup(toks, TRUE)
                 version_parts == IF g.patch THEN <<g.major, g.minor, "patch">>
                                  ELSE <<g.major, g.minor>>
             IN  Some(ToFloat(version_parts[1], version_parts[2]))

\* 7.0, in hundredths
MinNxosVersion == 700

\* mutant of validate_platform_support: the minimum version itself is refused
validate_platform_support_min_excluded(exec) ==
    IF exec.raised
    THEN create_result(FALSE, Msg("Platform validation failed: {str(e)}",
                           <<CommandExecutionError(show_version)>>),
                       NoDetails, "error")
    ELSE IF ~InOutputLower("nexus", exec.output) \/ ~InOutput("9000", exec.output)
    THEN create_result(FALSE,
                       Msg("Platform may not support VXLAN - expecting Nexus 9000 series", <<>>),
                       NoDetails, "warning")
    ELSE LET version == parse_nxos_version(exec.output)
         IN  IF version = None
             THEN create_result(FALSE, Msg("Could not determine NX-OS version", <<>>),
                                NoDetails, "error")
             ELSE IF version[1] <= MinNxosVersion
             THEN create_result(FALSE,
                                Msg("NX-OS {version} does not support VXLAN (minimum: 7.0)",
                                    <<version[1]>>),
                                NoDetails, "critical")
             ELSE create_result(TRUE, Msg("Platform supports VXLAN (NX-OS {version})",
                                          <<version[1]>>),
                                [version |-> version[1], platform |-> "Nexus 9000"], "info")

\* PlatformValidator.validate_platform_support
validate_platform_support(exec) ==
    IF exec.raised
    THEN create_result(FALSE, Msg("Platform validation failed: {str(e)}",
                           <<CommandExecutionError(show_version)>>),
                       NoDetails, "error")
    ELSE IF ~InOutputLower("nexus", exec.output) \/ ~InOutput("9000", exec.output)
    THEN create_result(FALSE,
                       Msg("Platform may not support VXLAN - expecting Nexus 9000 series", <<>>),
                       NoDetails, "warning")
    ELSE LET version == parse_nxos_version(exec.output)
         IN  IF version = None
             THEN create_result(FALSE, Msg("Could not determine NX-OS version", <<>>),
                                NoDetails, "error")
             ELSE IF version[1] < MinNxosVersion
             THEN create_result(FALSE,
                                Msg("NX-OS {version} does not support VXLAN (minimum: 7.0)",
                                    <<version[1]>>),
                                NoDetails, "critical")
             ELSE create_result(TRUE, Msg("Platform supports VXLAN (NX-OS {version})",
                                          <<version[1]>>),
                                [version |-> version[1], platform |-> "Nexus 9000"], "info")

VersionTokens == {"9.3(5)", "7.0(3)I7(6)", "6.2(2)", "6.10", "9.3.10", "unknown"}

VersionLines ==
    {<<"system:", "version", v>> : v \in VersionTokens}
        \cup {<<"System:", "version", "9.3(5)">>,
              <<"NXOS:", "version", "9.3(5)">>,
              <<"system:", "version">>,
              <<"6.2(2)", "kickstart">>}
        \cup {<<"cisco", "Nexus9000", "C9396PX", "Chassis">>,
              <<"cisco", "Nexus7000", "C7009", "Chassis">>,
              <<"Cisco", "Nexus", "Operating", "System", "(NX-OS)", "Software">>,
              <<"Cisco", "IOS", "Software">>}

VersionOutputs == SeqUpTo(VersionLines, MaxVersionLines)

PlatformCalls ==
    {Call("validate_platform_support", e) : e \in Execs(VersionOutputs)}
        \cup {Call("VxlanParser.parse_nxos_version", o) : o \in VersionOutputs}

InitPlatform ==
    /\ max_vni_count = DefaultMaxVniCount
    /\ call \in PlatformCalls
    /\ ret = NoReturn
    /\ rpc = "ready"
    /\ NoRun

ValidatePlatformSupport ==
    /\ rpc = "ready"
    /\ call.fn = "validate_platform_support"
    /\ ret' = validate_platform_support(call.arg)
    /\ rpc' = "returned"
    /\ UNCHANGED <<max_vni_count, call, runvars>>

MonolithicParseNxosVersion ==
    /\ rpc = "ready"
    /\ call.fn = "VxlanParser.parse_nxos_version"
    /\ ret' = [version |-> monolithic_parse_nxos_version(call.arg)]
    /\ rpc' = "returned"
    /\ UNCHANGED <<max_vni_count, call, runvars>>

NextPlatform == ValidatePlatformSupport \/ MonolithicParseNxosVersion

SpecPlatform == InitPlatform /\ [][NextPlatform]_vars

----------------------------------------------------------------------------
(* Claims on the version/platform rule *)

\* validate_platform_support has returned for an output the command gave
PlatformReturned == Returned("validate_platform_support") /\ ~call.arg.raised

\* the output names a Nexus 9000: 'nexus' in any case and '9000'
NamesNexus9000(output) == InOutputLower("nexus", output) /\ InOutput("9000", output)

\* the version rule on the version parsed from the output
VersionRule(output, result) ==
    LET version == parse_nxos_version(output)
    IN  /\ version = None => (~result.passed /\ result.severity = "error")
        /\ (version # None /\ version[1] < 700) =>
              (~result.passed /\ result.severity = "critical")
        /\ (version # None /\ version[1] >= 700) => result.passed

\* C10: version/platform rule. For any 'show version' output from which no
\* version can be parsed, platform validation returns passed=false with
\* severity=error and does not raise; when the parsed major.minor version is
\* below the minimum 7.0 it returns passed=false with severity=critical;
\* otherwise passed=true.
C10_VersionRule ==
    PlatformReturned => (~IsRaised(ret) /\ VersionRule(call.arg.output, ret))

\* C10 amended: the version rule applies to the 'show version' outputs that
\* name a Nexus 9000 (they contain 'nexus' in any letter case and '9000'): no
\* parsable version gives passed=false, severity=error; a major.minor version
\* below 7.0 gives passed=false, severity=critical; otherwise passed=true.
\* Every other output gives passed=false with severity=warning whatever
\* version it carries. Platform validation never raises. The monolithic
\* parser returns the major.minor of the first 'system: version' it finds in
\* any letter case, and None when there is none.
C10_VersionRuleOnNexus9000 ==
    /\ Returned("validate_platform_support") => ~IsRaised(ret)
    /\ PlatformReturned =>
          IF NamesNexus9000(call.arg.output)
          THEN VersionRule(call.arg.output, ret)
          ELSE ~ret.passed /\ ret.severity = "warning"
    /\ Returned("VxlanParser.parse_nxos_version") =>
          LET toks == Flatten(call.arg)
          IN  IF VersionMatches(toks, TRUE) = {} THEN ret.version = None
              ELSE \E i \in VersionMatches(toks, TRUE) :
                      LET g == VersionOf(toks[i + 2])[1]
                      IN  ret.version = Some(ToFloat(g.major, g.minor))

\* all three tiers of the rule on a Nexus 9000: here the critical one, from a
\* version whose minor number has two digits
C10_Witness ==
    /\ PlatformReturned
    /\ NamesNexus9000(call.arg.output)
    /\ parse_nxos_version(call.arg.output) = Some(610)
    /\ ret.severity = "critical"

----------------------------------------------------------------------------
(* A run of the script: CommonSetup, the test classes, CommonCleanup.  The
   run holds the testcases test_platform_compatibility,
   test_nve_peer_relationships, test_vni_configuration,
   test_bgp_evpn_neighbors and test_interface_statistics. *)

\* testbed.devices, in the order the testbed lists them
DeviceOrder == <<"leaf1", "leaf2">>

Devices == {DeviceOrder[i] : i \in 1..Len(DeviceOrder)}

Nexus9000Line == <<"cisco", "Nexus9000", "C9396PX", "Chassis">>

\* what each show command can give on a device of the run
RunVersionOutputs ==
    {<<Nexus9000Line, <<"system:", "version", "9.3(5)">>>>,
     <<Nexus9000Line, <<"system:", "version", "6.2(2)">>>>}

RunPeerOutputs ==
    {<<PeerHeader, <<"nve1", "10.0.0.1", "Up">>>>,
     <<PeerHeader>>,
     <<PeerHeader, <<"nve1", "10.0.0.1", "Down">>>>}

RunVniOutputs ==
    {<<VniHeader, <<"10100", "L2", "VLAN:", "100", "Up">>>>,
     <<VniHeader, <<"10100", "L2", "Up">>>>}

RunBgpOutputs == {<<<<"10.0.0.1", "4", "65000", "10", "10", "Established">>>>}

RunCounterOutputs ==
    {<<<<"output", "drops:", "0">>>>,
     <<<<"input", "errors:", "150">>, <<"nve1", "invalid", "discards:", "200">>>>}

\* a device that answers, with the output of each command
ReachableDevices ==
    [connects : {TRUE},
     show_version : {ExecOk(o) : o \in RunVersionOutputs},
     show_nve_peers : {ExecOk(o) : o \in RunPeerOutputs},
     show_nve_vni : {ExecOk(o) : o \in RunVniOutputs},
     show_bgp_evpn_summary : {ExecOk(o) : o \in RunBgpOutputs} \cup {ExecRaised},
     show_nve_counters : {ExecOk(o) : o \in RunCounterOutputs}]

\* a device whose connect() raises: no command is ever sent to it
UnreachableDevice ==
    [connects |-> FALSE, show_version |-> ExecRaised, show_nve_peers |-> ExecRaised,
     show_nve_vni |-> ExecRaised, show_bgp_evpn_summary |-> ExecRaised,
     show_nve_counters |-> ExecRaised]

Testbeds == [Devices -> ReachableDevices \cup {UnreachableDevice}]

\* the answers of the aetest objects that the sources here do not settle:
\* whether getattr(parent.parameters, 'device_info', {}) finds the entry that
\* connect_to_devices stored by key, whether hasattr(parent, <class name in
\* lower case>) finds the test class instance, and whether a failed
\* CommonSetup keeps the testcases from running
Libraries ==
    [parameters_getattr : BOOLEAN, parent_hasattr : BOOLEAN,
     setup_failure_blocks : BOOLEAN]

\* the test classes of the run, in the order the script defines them
RunClasses ==
    <<"VXLANPrerequisiteValidation", "VXLANInterfaceValidation", "VXLANVNIValidation",
      "VXLANBGPEVPNValidation", "VXLANHealthMonitoring">>

ClassNames == {RunClasses[i] : i \in 1..Len(RunClasses)}

InitRun ==
    /\ max_vni_count = DefaultMaxVniCount
    /\ call = Call("aetest.main", EmptyDict)
    /\ ret = NoReturn
    /\ rpc = "run"
    /\ testbed \in Testbeds
    /\ library \in Libraries
    /\ device_info = EmptyDict
    /\ setup_failed = FALSE
    /\ test_results = [c \in ClassNames |-> EmptyDict]
    /\ device_metrics = [c \in ClassNames |-> EmptyDict]
    /\ steps = {}
    /\ pc = "connect_to_devices"
    /\ report = EmptyDict

\* EnhancedCommonSetup.connect_to_devices
ConnectToDevices ==
    /\ pc = "connect_to_devices"
    /\ device_info' = [d \in Devices |-> [connected |-> testbed[d].connects]]
    /\ setup_failed' = (\E d \in Devices : ~testbed[d].connects)
    /\ pc' = "validate_prerequisites"
    /\ UNCHANGED <<max_vni_count, call, ret, rpc, testbed, library, test_results,
                   device_metrics, steps, report>>

\* the devices validate_prerequisites finds incompatible
incompatible_devices ==
    {d \in Devices :
        /\ device_info[d].connected
        /\ LET result == validate_platform_support(testbed[d].show_version)
           IN  ~result.passed /\ result.severity \in {"error", "critical"}}

\* EnhancedCommonSetup.validate_prerequisites, and the start of the testcases
\* or, when the failed setup blocks them, of CommonCleanup
ValidatePrerequisites ==
    /\ pc = "validate_prerequisites"
    /\ setup_failed' = (setup_failed \/ incompatible_devices # {})
    /\ pc' = IF setup_failed' /\ library.setup_failure_blocks
             THEN "generate_summary_report"
             ELSE "test_platform_compatibility"
    /\ UNCHANGED <<max_vni_count, call, ret, rpc, testbed, library, device_info,
                   test_results, device_metrics, steps, report>>

\* BaseVXLANTest.get_connected_devices
get_connected_devices ==
    IF library.parameters_getattr
    THEN SelectSeq(DeviceOrder, LAMBDA d : device_info[d].connected)
    ELSE <<>>

\* a record_test_result that starts the device's dict afresh on every call
record_test_result_afresh(results, device_name, test_name, result) ==
    (device_name :> (test_name :> result)) @@ results

\* BaseVXLANTest.record_test_result, on the test_results dict of one instance
record_test_result(results, device_name, test_name, result) ==
    LET old == IF device_name \in DOMAIN results THEN results[device_name] ELSE EmptyDict
    IN  (device_name :> ((test_name :> result) @@ old)) @@ results

\* BaseVXLANTest.record_metric, on the device_metrics dict of one instance
record_metric(metrics, device_name, metric_name, value) ==
    LET old == IF device_name \in DOMAIN metrics THEN metrics[device_name] ELSE EmptyDict
    IN  (device_name :> ((metric_name :> value) @@ old)) @@ metrics

\* vxlan_validators.py: validate_nve_interface

MaxInterfaceLines == 2

\* re.search(r'source-interface:\s*(\S+)', output, re.IGNORECASE): what
\* follows the first `source-interface:`, on its line or the next
RECURSIVE source_interface_of(_, _)
source_interface_of(toks, i) ==
    IF i >= Len(toks) THEN "unknown"
    ELSE IF Lower(toks[i]) = "source-interface:" THEN toks[i + 1]
    ELSE source_interface_of(toks, i + 1)

\* the checks of validate_nve_interface with the one for the administrative
\* status made first
validate_nve_interface_admin_first(exec) ==
    IF exec.raised
    THEN create_result(FALSE, Msg("NVE interface validation failed: {e}",
                                  <<CommandExecutionError(show_nve_interface)>>),
                       NoDetails, "error")
    ELSE IF PhraseInOutputLower(<<"administratively", "down">>, exec.output)
    THEN create_result(FALSE, Msg("NVE1 interface is administratively down", <<>>),
                       NoDetails, "error")
    ELSE IF PhraseInOutputLower(<<"invalid", "interface">>, exec.output)
            \/ PhraseInOutputLower(<<"not", "found">>, exec.output)
    THEN create_result(FALSE, Msg("NVE1 interface not configured", <<>>), NoDetails,
                       "critical")
    ELSE IF ~PhraseInOutputLower(<<"line", "protocol", "is", "up">>, exec.output)
    THEN create_result(FALSE, Msg("NVE1 interface line protocol is down", <<>>),
                       NoDetails, "error")
    ELSE IF ~InOutputLower("source-interface", exec.output)
    THEN create_result(FALSE, Msg("NVE1 missing source-interface configuration", <<>>),
                       NoDetails, "error")
    ELSE create_result(TRUE,
                       Msg("NVE1 interface is properly configured and operational", <<>>),
                       [source_interface |-> source_interface_of(Flatten(exec.output), 1),
                        admin_status |-> "up", oper_status |-> "up"],
                       "info")

\* InterfaceValidator.validate_nve_interface
validate_nve_interface(exec) ==
    IF exec.raised
    THEN create_result(FALSE, Msg("NVE interface validation failed: {e}",
                                  <<CommandExecutionError(show_nve_interface)>>),
                       NoDetails, "error")
    ELSE IF PhraseInOutputLower(<<"invalid", "interface">>, exec.output)
            \/ PhraseInOutputLower(<<"not", "found">>, exec.output)
    THEN create_result(FALSE, Msg("NVE1 interface not configured", <<>>), NoDetails,
                       "critical")
    ELSE IF PhraseInOutputLower(<<"administratively", "down">>, exec.output)
    THEN create_result(FALSE, Msg("NVE1 interface is administratively down", <<>>),
                       NoDetails, "error")
    ELSE IF ~PhraseInOutputLower(<<"line", "protocol", "is", "up">>, exec.output)
    THEN create_result(FALSE, Msg("NVE1 interface line protocol is down", <<>>),
                       NoDetails, "error")
    ELSE IF ~InOutputLower("source-interface", exec.output)
    THEN create_result(FALSE, Msg("NVE1 missing source-interface configuration", <<>>),
                       NoDetails, "error")
    ELSE create_result(TRUE,
                       Msg("NVE1 interface is properly configured and operational", <<>>),
                       [source_interface |-> source_interface_of(Flatten(exec.output), 1),
                        admin_status |-> "up", oper_status |-> "up"],
                       "info")

\* lines of `show interface nve1`: the status line up, down and
\* administratively down, the source interface, the device's error lines
\* and capitalised variants
InterfaceLines ==
    {<<"nve1", "is", "up", "line", "protocol", "is", "up">>,
     <<"nve1", "is", "down", "line", "protocol", "is", "down">>,
     <<"nve1", "is", "administratively", "down", "line", "protocol", "is", "down">>,
     <<"nve1", "is", "administratively", "down", "line", "protocol", "is", "up">>,
     <<"Line", "Protocol", "is", "up">>,
     <<"source-interface:", "loopback1">>,
     <<"Source-Interface:", "loopback1">>,
     <<"Invalid", "interface", "format">>,
     <<"interface", "not", "found">>}

InterfaceOutputs == SeqUpTo(InterfaceLines, MaxInterfaceLines)

\* the ValidationResult StructuredTestStep.validate_and_process hands to
\* process_validation_result, from what the validator returned or raised
validate_and_process(outcome) ==
    IF ~IsRaised(outcome) THEN outcome
    ELSE IF outcome.raised = "VXLANTestException"
    THEN create_result(FALSE, Msg("{str(e)}", <<>>), EmptyDict, "error")
    ELSE create_result(FALSE, Msg("Unexpected error: {str(e)}", <<>>),
                       [exception_type |-> outcome.raised], "error")

\* what the validator of a check returns on a device
ValidatorOutcome(check, d) ==
    CASE check = "platform_compatibility" ->
            validate_platform_support(testbed[d].show_version)
      [] check = "nve_interface_status" ->
            validate_nve_interface(testbed[d].show_nve_interface)
      [] check = "nve_peer_relationships" -> validate_nve_peers(testbed[d].show_nve_peers)
      [] check = "vni_configuration" ->
            validate_vni_configuration(testbed[d].show_nve_vni, max_vni_count)
      [] check = "bgp_evpn_neighbors" ->
            validate_bgp_evpn(testbed[d].show_bgp_evpn_summary)

\* the metrics a structured test records after its check, in order
MetricsOf(check, result) ==
    LET details == result.details
    IN  CASE check = "platform_compatibility" ->
                (IF "version" \in DOMAIN details
                 THEN <<(<<"nxos_version", details.version>>)>> ELSE <<>>)
                \o (IF "platform" \in DOMAIN details
                    THEN <<(<<"platform", details.platform>>)>> ELSE <<>>)
          [] check = "nve_interface_status" ->
                IF result.passed /\ "source_interface" \in DOMAIN details
                THEN <<(<<"nve_source_interface", details.source_interface>>)>>
                ELSE <<>>
          [] check = "nve_peer_relationships" ->
                (IF "peer_count" \in DOMAIN details
                 THEN <<(<<"nve_peer_count", details.peer_count>>)>> ELSE <<>>)
                \o (IF "peers" \in DOMAIN details
                    THEN <<(<<"nve_peers_up", Len(up_peers_of(details.peers))>>)>>
                    ELSE <<>>)
          [] check = "vni_configuration" ->
                (IF "total_vnis" \in DOMAIN details
                 THEN <<(<<"total_vnis", details.total_vnis>>)>> ELSE <<>>)
                \o (IF "l2_vni_count" \in DOMAIN details
                    THEN <<(<<"l2_vnis", details.l2_vni_count>>)>> ELSE <<>>)
                \o (IF "l3_vni_count" \in DOMAIN details
                    THEN <<(<<"l3_vnis", details.l3_vni_count>>)>> ELSE <<>>)
                \o (IF "usage_percentage" \in DOMAIN details
                    THEN <<(<<"vni_usage_percent", details.usage_percentage>>)>>
                    ELSE <<>>)
          [] check = "bgp_evpn_neighbors" ->
                IF "established_count" \in DOMAIN details
                THEN <<(<<"bgp_evpn_neighbors", details.established_count>>)>>
                ELSE <<>>

RECURSIVE record_metrics(_, _, _, _)
record_metrics(metrics, device_name, pairs, i) ==
    IF i > Len(pairs) THEN metrics
    ELSE record_metrics(record_metric(metrics, device_name, pairs[i][1], pairs[i][2]),
                        device_name, pairs, i + 1)

\* the loop of a structured test over the connected devices, from the i-th
\* on: per device one step, the check, its result recorded, its metrics
RECURSIVE structured_test(_, _, _, _)
structured_test(inst, check, connected_devices, i) ==
    IF i > Len(connected_devices) THEN inst
    ELSE LET device_name == connected_devices[i]
             result == validate_and_process(ValidatorOutcome(check, device_name))
         IN  structured_test(
                 [test_results |->
                      record_test_result(inst.test_results, device_name, check, result),
                  device_metrics |->
                      record_metrics(inst.device_metrics, device_name,
                                     MetricsOf(check, result), 1)],
                 check, connected_devices, i + 1)

\* the steps a test opens, one per connected device
StepsOf(check) ==
    {[check |-> check, device |-> get_connected_devices[i]] :
        i \in 1..Len(get_connected_devices)}

\* a test method of class `class` that runs `check` through structured_step
StructuredTest(class, check) ==
    LET inst == structured_test([test_results |-> test_results[class],
                                 device_metrics |-> device_metrics[class]],
                                check, get_connected_devices, 1)
    IN  /\ test_results' = [test_results EXCEPT ![class] = inst.test_results]
        /\ device_metrics' = [device_metrics EXCEPT ![class] = inst.device_metrics]
        /\ steps' = steps \cup StepsOf(check)
        /\ UNCHANGED <<max_vni_count, call, ret, rpc, testbed, library, device_info,
                       setup_failed, report>>

\* VXLANPrerequisiteValidation.test_platform_compatibility
TestPlatformCompatibility ==
    /\ pc = "test_platform_compatibility"
    /\ StructuredTest("VXLANPrerequisiteValidation", "platform_compatibility")
    /\ pc' = "test_nve_peer_relationships"

\* VXLANInterfaceValidation.test_nve_peer_relationships
TestNvePeerRelationships ==
    /\ pc = "test_nve_peer_relationships"
    /\ StructuredTest("VXLANInterfaceValidation", "nve_peer_relationships")
    /\ pc' = "test_vni_configuration"

\* VXLANVNIValidation.test_vni_configuration
TestVniConfiguration ==
    /\ pc = "test_vni_configuration"
    /\ StructuredTest("VXLANVNIValidation", "vni_configuration")
    /\ pc' = "test_bgp_evpn_neighbors"

\* VXLANBGPEVPNValidation.test_bgp_evpn_neighbors
TestBgpEvpnNeighbors ==
    /\ pc = "test_bgp_evpn_neighbors"
    /\ StructuredTest("VXLANBGPEVPNValidation", "bgp_evpn_neighbors")
    /\ pc' = "test_interface_statistics"

\* CONFIG.thresholds.error_counter_threshold
ErrorCounterThreshold == 100

\* re.findall(r'\d+', token)
NumbersIn(tok) ==
    CASE tok = "0" -> <<0>>
      [] tok = "150" -> <<150>>
      [] tok = "200" -> <<200>>
      [] tok = "50" -> <<50>>
      [] tok = "100" -> <<100>>
      [] tok = "101" -> <<101>>
      [] tok = "nve1" -> <<1>>
      [] OTHER -> <<>>

\* re.findall(r'\d+', line)
RECURSIVE numbers_of(_)
numbers_of(line) ==
    IF line = <<>> THEN <<>> ELSE NumbersIn(Head(line)) \o numbers_of(Tail(line))

RECURSIVE SumPositive(_)
SumPositive(numbers) ==
    IF numbers = <<>> THEN 0
    ELSE (IF Head(numbers) > 0 THEN Head(numbers) ELSE 0) + SumPositive(Tail(numbers))

error_patterns == <<"error", "drop", "discard", "invalid">>

\* the patterns for which the line is appended to errors_found
ErrorHits(line) ==
    {k \in 1..Len(error_patterns) :
        /\ \E j \in 1..Len(line) : Lower(line[j]) \in TokensWith(error_patterns[k])
        /\ numbers_of(line) # <<>>
        /\ \E n \in 1..Len(numbers_of(line)) : numbers_of(line)[n] > ErrorCounterThreshold}

\* total_errors after the loop over the lines
RECURSIVE total_errors_of(_)
total_errors_of(output) ==
    IF output = <<>> THEN 0
    ELSE Cardinality(ErrorHits(Head(output))) * SumPositive(numbers_of(Head(output)))
         + total_errors_of(Tail(output))

\* the loop of test_interface_statistics over the connected devices: the
\* counters are read and the metric is recorded; the outcome goes to the
\* step only
RECURSIVE interface_statistics(_, _, _)
interface_statistics(metrics, connected_devices, i) ==
    IF i > Len(connected_devices) THEN metrics
    ELSE LET device_name == connected_devices[i]
             exec == testbed[device_name].show_nve_counters
         IN  interface_statistics(
                 IF exec.raised THEN metrics
                 ELSE record_metric(metrics, device_name, "nve_error_count",
                                    total_errors_of(exec.output)),
                 connected_devices, i + 1)

\* VXLANHealthMonitoring.test_interface_statistics
TestInterfaceStatistics ==
    /\ pc = "test_interface_statistics"
    /\ device_metrics' =
          [device_metrics EXCEPT !["VXLANHealthMonitoring"] =
              interface_statistics(@, get_connected_devices, 1)]
    /\ steps' = steps \cup StepsOf("interface_statistics")
    /\ pc' = "generate_summary_report"
    /\ UNCHANGED <<max_vni_count, call, ret, rpc, testbed, library, device_info,
                   setup_failed, test_results, report>>

\* the class names generate_summary_report looks up
SummaryClasses ==
    <<"VXLANPrerequisiteValidation", "VXLANInterfaceValidation", "VXLANVNIValidation",
      "VXLANBGPEVPNValidation", "VXLANDataPlaneValidation", "VXLANHealthMonitoring">>

\* hasattr(self.parent, test_name.lower())
HasTestInstance(test_name) == library.parent_hasattr /\ test_name \in ClassNames

\* all_results after the classes from the i-th on: dict.update puts the
\* instance's entry for a device in the place of the one collected before
RECURSIVE collect_results(_, _)
collect_results(all_results, i) ==
    IF i > Len(SummaryClasses) THEN all_results
    ELSE collect_results(IF HasTestInstance(SummaryClasses[i])
                         THEN test_results[SummaryClasses[i]] @@ all_results
                         ELSE all_results,
                         i + 1)

\* all_metrics after the classes from the i-th on: per device, the
\* instance's metrics are merged into the ones collected before
RECURSIVE collect_metrics(_, _)
collect_metrics(all_metrics, i) ==
    IF i > Len(SummaryClasses) THEN all_metrics
    ELSE collect_metrics(
             IF HasTestInstance(SummaryClasses[i])
             THEN LET dm == device_metrics[SummaryClasses[i]]
                  IN  [d \in DOMAIN dm \cup DOMAIN all_metrics |->
                          IF d \in DOMAIN dm
                          THEN dm[d] @@ (IF d \in DOMAIN all_metrics
                                         THEN all_metrics[d] ELSE EmptyDict)
                          ELSE all_metrics[d]]
             ELSE all_metrics,
             i + 1)

\* all_results.get(d, {})
ResultsGet(all_results, d) ==
    IF d \in DOMAIN all_results THEN all_results[d] ELSE EmptyDict

\* the devices the overall summary counts as healthy
healthy_devices_of(all_results) ==
    {d \in Devices :
        ~\E t \in DOMAIN ResultsGet(all_results, d) :
            LET result == ResultsGet(all_results, d)[t]
            IN  ~result.passed /\ result.severity \in {"error", "critical"}}

\* a report that also carries over the healthy count of the report before it
summary_report_accumulating ==
    LET all_results == collect_results(EmptyDict, 1)
        all_metrics == collect_metrics(EmptyDict, 1)
    IN  [all_results |-> all_results,
         all_metrics |-> all_metrics,
         devices |->
            [d \in Devices |->
                LET device_results == ResultsGet(all_results, d)
                IN  [passed_tests |->
                         {t \in DOMAIN device_results : device_results[t].passed},
                     failed_tests |->
                         {t \in DOMAIN device_results : ~device_results[t].passed}]],
         total_devices |-> Cardinality(Devices),
         healthy |-> healthy_devices_of(all_results),
         healthy_devices |->
            Cardinality(healthy_devices_of(all_results))
                + (IF report = EmptyDict THEN 0 ELSE report.healthy_devices)]

\* what generate_summary_report works out and logs, from the results and
\* metrics the test instances hold
summary_report ==
    LET all_results == collect_results(EmptyDict, 1)
        all_metrics == collect_metrics(EmptyDict, 1)
    IN  [all_results |-> all_results,
         all_metrics |-> all_metrics,
         devices |->
            [d \in Devices |->
                LET device_results == ResultsGet(all_results, d)
                IN  [passed_tests |->
                         {t \in DOMAIN device_results : device_results[t].passed},
                     failed_tests |->
                         {t \in DOMAIN device_results : ~device_results[t].passed}]],
         total_devices |-> Cardinality(Devices),
         healthy |-> healthy_devices_of(all_results),
         healthy_devices |-> Cardinality(healthy_devices_of(all_results))]

\* CommonCleanup.generate_summary_report
GenerateSummaryReport ==
    /\ pc = "generate_summary_report"
    /\ report' = summary_report
    /\ pc' = "done"
    /\ UNCHANGED <<max_vni_count, call, ret, rpc, testbed, library, device_info,
                   setup_failed, test_results, device_metrics, steps>>

\* CommonCleanup.generate_summary_report called once more after the run, with
\* no record call in between
RegenerateSummaryReport ==
    /\ pc = "done"
    /\ report' = summary_report
    /\ pc' = "regenerated"
    /\ UNCHANGED <<max_vni_count, call, ret, rpc, testbed, library, device_info,
                   setup_failed, test_results, device_metrics, steps>>

Next ==
    \/ ConnectToDevices
    \/ ValidatePrerequisites
    \/ TestPlatformCompatibility
    \/ TestNvePeerRelationships
    \/ TestVniConfiguration
    \/ TestBgpEvpnNeighbors
    \/ TestInterfaceStatistics
    \/ GenerateSummaryReport
    \/ RegenerateSummaryReport

Spec == InitRun /\ [][Next]_vars

----------------------------------------------------------------------------
(* Claims on the run and its summary *)

\* the (class, check name) pairs under which a result is recorded for d
RecordedChecks(d) ==
    {ct \in ClassNames \X {s.check : s \in steps} :
        /\ d \in DOMAIN test_results[ct[1]]
        /\ ct[2] \in DOMAIN test_results[ct[1]][d]}

\* the result recorded under such a pair
Recorded(d, ct) == test_results[ct[1]][d][ct[2]]

\* C1: at summary time a device is counted healthy if and only if no
\* ValidationResult recorded for it during the run, by any test class, has
\* severity error or critical; a device whose only non-passing results have
\* severity warning is still counted healthy.
C1_HealthyIffNoErrorOrCritical ==
    pc = "done" =>
        \A d \in Devices :
            d \in report.healthy <=>
                ~\E ct \in RecordedChecks(d) :
                    Recorded(d, ct).severity \in {"error", "critical"}

\* C2: every check run on a connected device leaves exactly one
\* ValidationResult recorded for that (device, check name) pair, never zero
\* and never more than one, however the validator ends.
C2_ExactlyOneResultPerCheck ==
    \A s \in steps :
        Cardinality({ct \in RecordedChecks(s.device) : ct[2] = s.check}) = 1

\* C2 for the checks that go through structured_step
C2_StructuredChecks ==
    \A s \in steps :
        s.check # "interface_statistics" =>
            Cardinality({ct \in RecordedChecks(s.device) : ct[2] = s.check}) = 1

\* C3: the summary's result set for a device contains every (check name,
\* result) pair recorded for that device by every test class, and the
\* reported passed and failed counts add up to the number of checks recorded
\* for the device.
C3_SummaryKeepsAllResults ==
    pc = "done" =>
        \A d \in Devices :
            /\ \A ct \in RecordedChecks(d) :
                  /\ ct[2] \in DOMAIN ResultsGet(report.all_results, d)
                  /\ ResultsGet(report.all_results, d)[ct[2]] = Recorded(d, ct)
            /\ Cardinality(report.devices[d].passed_tests)
                   + Cardinality(report.devices[d].failed_tests)
               = Cardinality(RecordedChecks(d))

----------------------------------------------------------------------------
(* Claims on the aggregation of rule outcomes *)

\* the place of a severity in the order info < warning < error < critical
SeverityRank(severity) ==
    CASE severity = "info" -> 0
      [] severity = "warning" -> 1
      [] severity = "error" -> 2
      [] severity = "critical" -> 3

\* the worse of two severities
WorseOf(a, b) == IF SeverityRank(a) >= SeverityRank(b) THEN a ELSE b

\* the outcome of the association rule on a VNI collection
AssociationSeverity(vnis) == IF ExpectedIssues(vnis, 1) # <<>> THEN "error" ELSE "info"

\* the outcome of the usage-threshold rule on a count
UsageSeverity(current, maximum) ==
    CASE ClaimedTier(current, maximum) = "critical" -> "critical"
      [] ClaimedTier(current, maximum) = "warning" -> "warning"
      [] OTHER -> "info"

\* C11: worst wins. When several rules contribute to one check's result, the
\* result's severity is the maximum of the contributing severities in the
\* order info < warning < error < critical; for the VNI check, which combines
\* the association rule and the usage-threshold rule, the final severity is
\* the worse of the two outcomes (wherever both rules give an outcome, that
\* is, max_vni_count is positive).
C11_WorstWins ==
    (VnisParsed /\ max_vni_count > 0) =>
        LET vnis == parse_vni_info(call.arg.output)
        IN  ret.severity = WorseOf(AssociationSeverity(vnis),
                                   UsageSeverity(Len(vnis), max_vni_count))

----------------------------------------------------------------------------
(* vxlan_validators.py: validate_ingress_replication, validate_evpn_routes *)

MaxIngressLines == 2

MaxRouteLines == 2

\* VNIValidator.validate_ingress_replication
validate_ingress_replication(exec) ==
    IF exec.raised
    THEN create_result(TRUE, Msg("Ingress replication check not applicable", <<>>),
                       NoDetails, "info")
    ELSE IF ~InOutput("VNI", exec.output)
    THEN create_result(TRUE,
                       Msg("No specific ingress replication configuration (may use defaults)",
                           <<>>),
                       NoDetails, "info")
    ELSE LET has_bgp == InOutputLower("protocol-bgp", exec.output)
                            \/ InOutputLower("bgp", exec.output)
             has_static == InOutputLower("static", exec.output)
             method == IF has_bgp THEN "BGP EVPN" ELSE "Static"
         IN  IF ~has_bgp /\ ~has_static
             THEN create_result(FALSE, Msg("Ingress replication not properly configured", <<>>),
                                NoDetails, "error")
             ELSE create_result(TRUE, Msg("Ingress replication configured using {method}",
                                          <<method>>),
                                [method |-> method], "info")

\* output.count('Route Distinguisher') on one line
RECURSIVE CountRouteDistinguisher(_, _)
CountRouteDistinguisher(line, i) ==
    IF i >= Len(line) THEN 0
    ELSE (IF line[i] = "Route" /\ line[i + 1] = "Distinguisher:" THEN 1 ELSE 0)
         + CountRouteDistinguisher(line, i + 1)

\* output.count('Route Distinguisher')
RECURSIVE rd_count_of(_)
rd_count_of(output) ==
    IF output = <<>> THEN 0
    ELSE CountRouteDistinguisher(Head(output), 1) + rd_count_of(Tail(output))

\* BGPValidator.validate_evpn_routes
validate_evpn_routes(exec) ==
    IF exec.raised
    THEN create_result(TRUE, Msg("EVPN route check not applicable or failed", <<>>),
                       NoDetails, "info")
    ELSE IF \A i \in 1..Len(exec.output) : exec.output[i] = <<>>
    THEN create_result(FALSE, Msg("No EVPN routes found", <<>>), NoDetails, "warning")
    ELSE IF rd_count_of(exec.output) = 0
    THEN create_result(FALSE, Msg("No route distinguishers found in EVPN table", <<>>),
                       NoDetails, "error")
    ELSE create_result(TRUE, Msg("Found {rd_count} EVPN route distinguishers",
                                 <<rd_count_of(exec.output)>>),
                       [rd_count |-> rd_count_of(exec.output)], "info")

\* `show nve vni ingress-replication`: the table header and rows naming the
\* replication method
IngressLines ==
    {<<"Interface", "VNI", "Replication">>,
     <<"nve1", "10100", "protocol-bgp">>,
     <<"nve1", "10100", "UnicastBGP">>,
     <<"nve1", "10100", "Static", "10.0.0.1">>,
     <<"nve1", "10100", "multicast">>}

IngressOutputs == SeqUpTo(IngressLines, MaxIngressLines)

\* `show bgp l2vpn evpn | include 'Route Distinguisher'`: lines with one or
\* two route distinguishers, a blank line and the device's error line
RouteLines ==
    {<<"Route", "Distinguisher:", "10.0.0.1:3">>,
     <<"Route", "Distinguisher:", "10.0.0.1:3", "Route", "Distinguisher:", "10.0.0.2:4">>,
     <<>>,
     <<"Syntax", "error", "while", "parsing">>}

RouteOutputs == SeqUpTo(RouteLines, MaxRouteLines)

\* vxlan_validators.py / vxlan_utils.py: validate_vxlan_features and
\* parse_feature_status

MaxFeatureLines == 2

\* the tokens that REGEX_PATTERNS['feature_status'] takes as a feature name,
\* \w+(?:-\w+)*, as an instance number, \d+, and as a status, \w+
FeatureNameTokens ==
    {"vn-segment-vlan-based", "nv", "overlay", "nve", "1", "enabled", "disabled", "Enabled"}

InstanceTokens == {"1"}

StatusTokens == {"enabled", "disabled", "Enabled", "1", "nv", "overlay", "nve"}

\* re.search(REGEX_PATTERNS['feature_status'], line): the leftmost position
\* at which a name, a number and a status follow one another, or 0
RECURSIVE feature_status_match(_, _)
feature_status_match(line, i) ==
    IF i + 2 > Len(line) THEN 0
    ELSE IF /\ line[i] \in FeatureNameTokens
            /\ line[i + 1] \in InstanceTokens
            /\ line[i + 2] \in StatusTokens
    THEN i
    ELSE feature_status_match(line, i + 1)

\* VXLANParser.parse_feature_status: features after the lines from the i-th
\* on, a later line for a name taking the place of an earlier one
RECURSIVE parse_feature_status_from(_, _, _)
parse_feature_status_from(features, output, i) ==
    IF i > Len(output) THEN features
    ELSE LET m == feature_status_match(output[i], 1)
         IN  parse_feature_status_from(
                 IF m = 0 THEN features
                 ELSE (output[i][m] :> Lower(output[i][m + 2])) @@ features,
                 output, i + 1)

parse_feature_status(output) == parse_feature_status_from(EmptyDict, output, 1)

\* required_features: CONFIG.features.vn_segment_feature and
\* CONFIG.features.nv_overlay_feature with their enable commands
required_features ==
    <<(<<"vn-segment-vlan-based", "feature vn-segment-vlan-based">>),
      (<<"nv overlay", "feature nv overlay">>)>>

\* FeatureValidator.validate_vxlan_features
validate_vxlan_features(exec) ==
    IF exec.raised
    THEN create_result(FALSE, Msg("Feature validation failed: {e}",
                                  <<CommandExecutionError(show_feature)>>),
                       NoDetails, "error")
    ELSE LET features == parse_feature_status(exec.output)
             missing_features ==
                 SelectSeq(required_features, LAMBDA f : f[1] \notin DOMAIN features)
             disabled_features ==
                 SelectSeq(required_features,
                           LAMBDA f : f[1] \in DOMAIN features /\ features[f[1]] # "enabled")
         IN  IF missing_features # <<>> \/ disabled_features # <<>>
             THEN create_result(
                      FALSE, Msg("Required VXLAN features not enabled", <<>>),
                      (IF disabled_features # <<>>
                       THEN "disabled" :> disabled_features ELSE EmptyDict)
                      @@ (IF missing_features # <<>>
                          THEN "missing" :> [k \in 1..Len(missing_features) |->
                                                missing_features[k][1]]
                          ELSE EmptyDict),
                      "critical")
             ELSE create_result(TRUE, Msg("All required VXLAN features are enabled", <<>>),
                                [enabled_features |->
                                    [k \in 1..Len(required_features) |->
                                        required_features[k][1]]],
                                "info")

\* lines of `show feature`: the two required features enabled and disabled,
\* the nve line a device prints for the overlay, and a capitalised status
FeatureLines ==
    {<<"vn-segment-vlan-based", "1", "enabled">>,
     <<"vn-segment-vlan-based", "1", "disabled">>,
     <<"vn-segment-vlan-based", "1", "Enabled">>,
     <<"nv", "overlay", "1", "enabled">>,
     <<"nv", "overlay", "1", "disabled">>,
     <<"nve", "1", "enabled">>}

FeatureOutputs == SeqUpTo(FeatureLines, MaxFeatureLines)

\* `show nve vni` with two VNIs that have no configuration issue
TwoVniOutput ==
    <<VniHeader, <<"10100", "L2", "VLAN:", "100", "Up">>,
      <<"10100", "L2", "VLAN:", "100", "Up">>>>

\* every validator of the model, called once with what its command gave or
\* with the command failing
ExecCalls ==
    StateCalls
        \cup {Call("validate_platform_support", e) : e \in Execs(RunVersionOutputs)}
        \cup {Call("validate_vni_configuration", e) :
                e \in Execs(RunVniOutputs \cup {TwoVniOutput})}
        \cup {Call("validate_ingress_replication", e) : e \in Execs(IngressOutputs)}
        \cup {Call("validate_evpn_routes", e) : e \in Execs(RouteOutputs)}
        \cup {Call("validate_vxlan_features", e) : e \in Execs(FeatureOutputs)}
        \cup {Call("validate_nve_interface", e) : e \in Execs(InterfaceOutputs)}

InitExec ==
    /\ max_vni_count \in MaxVniCounts
    /\ call \in ExecCalls
    /\ ret = NoReturn
    /\ rpc = "ready"
    /\ NoRun

ValidateIngressReplication ==
    /\ rpc = "ready"
    /\ call.fn = "validate_ingress_replication"
    /\ ret' = validate_ingress_replication(call.arg)
    /\ rpc' = "returned"
    /\ UNCHANGED <<max_vni_count, call, runvars>>

ValidateEvpnRoutes ==
    /\ rpc = "ready"
    /\ call.fn = "validate_evpn_routes"
    /\ ret' = validate_evpn_routes(call.arg)
    /\ rpc' = "returned"
    /\ UNCHANGED <<max_vni_count, call, runvars>>

ValidateVxlanFeatures ==
    /\ rpc = "ready"
    /\ call.fn = "validate_vxlan_features"
    /\ ret' = validate_vxlan_features(call.arg)
    /\ rpc' = "returned"
    /\ UNCHANGED <<max_vni_count, call, runvars>>

ValidateNveInterface ==
    /\ rpc = "ready"
    /\ call.fn = "validate_nve_interface"
    /\ ret' = validate_nve_interface(call.arg)
    /\ rpc' = "returned"
    /\ UNCHANGED <<max_vni_count, call, runvars>>

NextExec ==
    \/ ValidatePlatformSupport
    \/ ValidateVxlanFeatures
    \/ ValidateNveInterface
    \/ ValidateNvePeers
    \/ ValidateVniConfiguration
    \/ ValidateIngressReplication
    \/ ValidateBgpEvpn
    \/ ValidateEvpnRoutes

SpecExec == InitExec /\ [][NextExec]_vars

----------------------------------------------------------------------------
(* Claims on command failures *)

\* the command a validator sends
CommandOf(fn) ==
    CASE fn = "validate_platform_support" -> show_version
      [] fn = "validate_nve_peers" -> show_nve_peers
      [] fn = "validate_vxlan_features" -> show_feature
      [] fn = "validate_nve_interface" -> show_nve_interface
      [] fn = "validate_vni_configuration" -> show_nve_vni
      [] fn = "validate_ingress_replication" -> show_nve_vni_ingress
      [] fn = "validate_bgp_evpn" -> show_bgp_evpn_summary
      [] fn = "validate_evpn_routes" -> show_bgp_evpn_routes

\* the message names the command
IdentifiesCommand(message, command) ==
    \E i \in 1..Len(message.args) :
        /\ "command" \in DOMAIN message.args[i]
        /\ message.args[i].command = command

\* the command of the validator called failed and the validator is back
CommandFailed == rpc = "returned" /\ call.arg.raised

\* C12: for every validator, when the device fails to execute the check's
\* command, the check produces a ValidationResult with passed=false and
\* severity=error whose message identifies the failed command, and no
\* exception escapes the validator.
C12_CommandFailureIsError ==
    CommandFailed =>
        /\ ~IsRaised(ret)
        /\ ~ret.passed
        /\ ret.severity = "error"
        /\ IdentifiesCommand(ret.message, CommandOf(call.fn))

\* C12 for the validators other than validate_ingress_replication and
\* validate_evpn_routes
C12_CommandFailureIsErrorElsewhere ==
    (CommandFailed /\ call.fn \notin {"validate_ingress_replication", "validate_evpn_routes"})
        => C12_CommandFailureIsError

----------------------------------------------------------------------------
(* Claims on isolation between the devices of a run *)

\* the checks the testcases of the run perform on a connected device
RunChecks ==
    {"platform_compatibility", "nve_peer_relationships", "vni_configuration",
     "bgp_evpn_neighbors", "interface_statistics"}

\* every device of the testbed got its connection attempt and its
\* device_info entry
EveryDeviceAttempted ==
    \A d \in Devices :
        d \in DOMAIN device_info /\ device_info[d].connected = testbed[d].connects

\* every connected device got every check
EveryConnectedDeviceChecked ==
    \A d \in Devices :
        testbed[d].connects =>
            \A check \in RunChecks : [check |-> check, device |-> d] \in steps

\* C13: isolation. A failure while processing one device (connection
\* failure, command failure or any exception in a check) never prevents any
\* other device of the testbed from being processed: once the run is over,
\* every device got a connection attempt and a device_info entry, and every
\* connected device got every check, whatever happened on the other devices.
C13_Isolation ==
    pc = "done" => EveryDeviceAttempted /\ EveryConnectedDeviceChecked

\* C13 for the connection attempts alone
C13_EveryDeviceAttempted ==
    pc \notin {"connect_to_devices"} => EveryDeviceAttempted

\* C13 for the runs in which the testcases ran and found the stored
\* device_info
C13_IsolationInTestcases ==
    (pc = "done" /\ library.parameters_getattr
        /\ ~(setup_failed /\ library.setup_failure_blocks))
        => EveryConnectedDeviceChecked

----------------------------------------------------------------------------
(* Claims on devices without results *)

\* no result was recorded for the device during the run, by any test class
NoResultRecorded(d) == \A c \in ClassNames : d \notin DOMAIN test_results[c]

\* C14: a device for which no result was recorded during the run is
\* reported as unknown health: it still appears in the summary and it is
\* not counted among the healthy devices.
C14_NoResultIsUnknownHealth ==
    pc = "done" =>
        \A d \in Devices :
            NoResultRecorded(d) =>
                d \in DOMAIN report.devices /\ d \notin report.healthy

\* C14 for the appearance in the summary alone
C14_NoResultStillAppears ==
    pc = "done" =>
        \A d \in Devices : NoResultRecorded(d) => d \in DOMAIN report.devices

\* C14 is violated as well when every library lookup succeeds
C14_NoResultIsUnknownHealthLookupsFound ==
    (library.parameters_getattr /\ library.parent_hasattr) => C14_NoResultIsUnknownHealth

----------------------------------------------------------------------------
(* base_test.py: record_test_result and record_metric called by concurrent
   workers on one BaseVXLANTest instance *)

MaxWorkers == 3

Workers == 1..MaxWorkers

\* the test or metric name each worker records under, one per worker
RecordNames ==
    <<"platform_compatibility", "nve_peer_relationships", "vni_configuration",
      "bgp_evpn_neighbors", "nve_error_count", "total_vnis">>

\* what a worker records: a result for record_test_result, a number for
\* record_metric
RecordValue(fn) ==
    IF fn = "record_test_result"
    THEN create_result(TRUE, Msg("ok", <<>>), NoDetails, "info")
    ELSE 1

\* the calls of the workers: each records one value for a device under its
\* own name
RecordCalls ==
    [Workers -> [fn : {"record_test_result", "record_metric"}, device_name : Devices]]

InitRecord ==
    /\ max_vni_count = DefaultMaxVniCount
    /\ call \in RecordCalls
    /\ ret = NoReturn
    /\ rpc = "concurrent"
    /\ testbed = EmptyDict
    /\ library = EmptyDict
    /\ device_info = EmptyDict
    /\ setup_failed = FALSE
    /\ test_results = EmptyDict
    /\ device_metrics = EmptyDict
    /\ steps = {}
    /\ pc = [w \in Workers |-> "test"]
    /\ report = EmptyDict

\* where worker w goes after its step: from the membership test
\* `device_name not in dict` to the assignment of {} or past it, then to the
\* item assignment, then out of the function
RecordGoto(dict, w) ==
    CASE pc[w] = "test" -> IF call[w].device_name \notin DOMAIN dict THEN "init" ELSE "store"
      [] pc[w] = "init" -> "store"
      [] pc[w] = "store" -> "done"

\* the dict after the step of worker w: `dict[device_name] = {}` puts an
\* empty dict in the place of whatever is there, and
\* `dict[device_name][name] = value` adds to what is there
RecordStep(dict, w) ==
    LET device_name == call[w].device_name
    IN  CASE pc[w] = "test" -> dict
          [] pc[w] = "init" -> (device_name :> EmptyDict) @@ dict
          [] pc[w] = "store" ->
                (device_name :> ((RecordNames[w] :> RecordValue(call[w].fn))
                                 @@ dict[device_name])) @@ dict

\* one step of a worker inside BaseVXLANTest.record_test_result
RecordTestResult(w) ==
    /\ rpc = "concurrent"
    /\ call[w].fn = "record_test_result"
    /\ pc[w] # "done"
    /\ test_results' = RecordStep(test_results, w)
    /\ pc' = [pc EXCEPT ![w] = RecordGoto(test_results, w)]
    /\ UNCHANGED <<max_vni_count, call, ret, rpc, testbed, library, device_info,
                   setup_failed, device_metrics, steps, report>>

\* one step of a worker inside BaseVXLANTest.record_metric
RecordMetric(w) ==
    /\ rpc = "concurrent"
    /\ call[w].fn = "record_metric"
    /\ pc[w] # "done"
    /\ device_metrics' = RecordStep(device_metrics, w)
    /\ pc' = [pc EXCEPT ![w] = RecordGoto(device_metrics, w)]
    /\ UNCHANGED <<max_vni_count, call, ret, rpc, testbed, library, device_info,
                   setup_failed, test_results, steps, report>>

NextRecord ==
    \/ \E w \in Workers : RecordTestResult(w)
    \/ \E w \in Workers : RecordMetric(w)

SpecRecord == InitRecord /\ [][NextRecord]_vars

----------------------------------------------------------------------------
(* Claims on concurrent recording *)

\* the collector holds what worker w recorded
Holds(w) ==
    LET dict == IF call[w].fn = "record_test_result" THEN test_results ELSE device_metrics
        device_name == call[w].device_name
    IN  /\ device_name \in DOMAIN dict
        /\ RecordNames[w] \in DOMAIN dict[device_name]
        /\ dict[device_name][RecordNames[w]] = RecordValue(call[w].fn)

\* every call of every worker has completed
AllRecorded == \A w \in Workers : pc[w] = "done"

\* C15: when record_test_result and record_metric are invoked concurrently
\* by per-device workers (including two workers recording for the same
\* device), no update is lost: after all calls complete, the collector holds
\* every (device, check) result and every (device, metric) value that was
\* recorded.
C15_NoLostUpdate == AllRecorded => \A w \in Workers : Holds(w)

\* C15 for workers that record into different dict entries: no two of them
\* call the same function for the same device
C15_NoLostUpdateApart ==
    (AllRecorded /\ \A v, w \in Workers : v # w => call[v] # call[w])
        => \A w \in Workers : Holds(w)

----------------------------------------------------------------------------
(* vxlan_config.py: VXLANConfig.__init__ and _load_env_overrides, and a
   per-device check under the loaded thresholds *)

\* CONFIG.thresholds as the dataclass defaults give it
DefaultThresholds ==
    [max_vni_count |-> DefaultMaxVniCount, max_peer_count |-> DefaultMaxPeerCount,
     error_counter_threshold |-> ErrorCounterThreshold]

\* the environment variable of each threshold
EnvNames ==
    [max_vni_count |-> "VXLAN_MAX_VNI_COUNT", max_peer_count |-> "VXLAN_MAX_PEER_COUNT",
     error_counter_threshold |-> "VXLAN_ERROR_THRESHOLD"]

\* what os.getenv can give for a variable: None when it is not set, else its
\* text
EnvValues == {None, Some(""), Some("2"), Some("0"), Some("-5"), Some("abc")}

Environments ==
    [{EnvNames[k] : k \in DOMAIN EnvNames} -> EnvValues]

\* `if os.getenv(name):` a set, non-empty text
EnvGiven(value) == value # None /\ value # Some("")

\* int(text): the number, or None where int raises ValueError
env_int(text) ==
    CASE text = "2" -> Some(2)
      [] text = "0" -> Some(0)
      [] text = "-5" -> Some(0 - 5)
      [] OTHER -> None

\* VXLANConfig._load_env_overrides: the thresholds, or the ValueError of the
\* first int() that fails
load_env_overrides(env) ==
    IF \E k \in DOMAIN EnvNames :
           EnvGiven(env[EnvNames[k]]) /\ env_int(env[EnvNames[k]][1]) = None
    THEN Raised("ValueError")
    ELSE [k \in DOMAIN EnvNames |->
             IF EnvGiven(env[EnvNames[k]])
             THEN env_int(env[EnvNames[k]][1])[1]
             ELSE DefaultThresholds[k]]

\* the script is imported in some environment, for a testbed of one device
InitConfig ==
    /\ max_vni_count = DefaultMaxVniCount
    /\ call \in {Call("VXLANConfig", env) : env \in Environments}
    /\ ret = NoReturn
    /\ rpc = "import"
    /\ testbed \in [{"leaf1"} -> [show_nve_vni : Execs(RunVniOutputs)]]
    /\ library = EmptyDict
    /\ device_info = EmptyDict
    /\ setup_failed = FALSE
    /\ test_results = EmptyDict
    /\ device_metrics = EmptyDict
    /\ steps = {}
    /\ pc = "none"
    /\ report = EmptyDict

\* CONFIG = VXLANConfig() at import of vxlan_config: a ValueError ends the
\* import, else the thresholds are in force for the run
LoadEnvOverrides ==
    /\ rpc = "import"
    /\ ret' = load_env_overrides(call.arg)
    /\ rpc' = IF IsRaised(ret') THEN "fatal" ELSE "loaded"
    /\ max_vni_count' = IF IsRaised(ret') THEN max_vni_count ELSE ret'.max_vni_count
    /\ UNCHANGED <<call, runvars>>

\* the VNI check on the device, under the loaded thresholds
ValidateVniConfigurationLoaded ==
    /\ rpc = "loaded"
    /\ ret' = validate_vni_configuration(testbed["leaf1"].show_nve_vni, max_vni_count)
    /\ rpc' = "checked"
    /\ UNCHANGED <<max_vni_count, call, runvars>>

NextConfig ==
    \/ LoadEnvOverrides
    \/ ValidateVniConfigurationLoaded

SpecConfig == InitConfig /\ [][NextConfig]_vars

----------------------------------------------------------------------------
(* Claims on threshold overrides *)

\* the override of a threshold is not a number
NonNumericOverride(env) ==
    \E k \in DOMAIN EnvNames :
        EnvGiven(env[EnvNames[k]]) /\ env_int(env[EnvNames[k]][1]) = None

\* the override of a threshold is not a number, or is a zero or negative
\* maximum VNI count, maximum peer count or error-counter floor
InvalidOverride(env) ==
    \/ NonNumericOverride(env)
    \/ \E k \in DOMAIN EnvNames :
           /\ EnvGiven(env[EnvNames[k]])
           /\ env_int(env[EnvNames[k]][1]) # None
           /\ env_int(env[EnvNames[k]][1])[1] <= 0

\* C16: an invalid threshold override taken from the environment (a
\* non-numeric value, or a zero or negative maximum VNI count, maximum peer
\* count or error-counter floor) is rejected as a fatal error when the
\* configuration is loaded, before any device is processed; it never
\* surfaces later as a failed or wrongly passed per-device check.
C16_InvalidOverrideIsFatal ==
    InvalidOverride(call.arg) => rpc \in {"import", "fatal"}

\* C16 for the values that are not numbers
C16_NonNumericOverrideIsFatal ==
    NonNumericOverride(call.arg) => rpc \in {"import", "fatal"}

\* an accepted zero maximum VNI count has surfaced as a failed VNI check
ZeroMaximumSurfaces ==
    /\ rpc = "checked"
    /\ max_vni_count = 0
    /\ ~ret.passed
    /\ ret.message.fmt = "VNI validation failed: {e}"

----------------------------------------------------------------------------
(* Claims on totality of the rule engine *)

\* a rule-engine function was called on a count and a maximum and is back
UsageReturned == rpc = "returned"

\* C17: every rule-engine function returns a result for every typed input
\* and never raises; for the resource-usage validation this holds for all
\* non-negative integer values of current and maximum.
C17_NeverRaises == UsageReturned => ~IsRaised(ret)

\* C17 for a positive maximum
C17_NeverRaisesPositiveMaximum ==
    (UsageReturned
        /\ (call.fn = "_validate_vni_usage" => max_vni_count > 0)
        /\ (call.fn # "_validate_vni_usage" => call.arg.maximum > 0))
        => ~IsRaised(ret)

\* C17 for calculate_percentage
C17_CalculatePercentageNeverRaises ==
    (UsageReturned /\ call.fn = "calculate_percentage") => ~IsRaised(ret)

----------------------------------------------------------------------------
(* enhanced_vxlan_testsuite.py: test_interface_statistics on its own, over
   the counter lines a device can give *)

MaxCounterLines == 2

\* lines of `show interface nve1 counters detailed`: a counter above, at and
\* below the floor, a zero counter, a line with a second number, a line with
\* two keywords, a line with no keyword and a capitalised one
CounterLines ==
    {<<"input", "errors:", "150">>,
     <<"input", "errors:", "100">>,
     <<"input", "errors:", "50">>,
     <<"output", "drops:", "0">>,
     <<"input", "errors:", "150", "CRC:", "50">>,
     <<"invalid", "discards:", "200">>,
     <<"input", "packets:", "150">>,
     <<"Input", "Errors:", "101">>}

CounterOutputs == SeqUpTo(CounterLines, MaxCounterLines)

\* VXLANHealthMonitoring runs after a setup that connected leaf1 and could
\* not connect leaf2
InitCounters ==
    /\ max_vni_count = DefaultMaxVniCount
    /\ call = Call("aetest.main", EmptyDict)
    /\ ret = NoReturn
    /\ rpc = "run"
    /\ testbed \in
          {[leaf1 |-> [connects |-> TRUE, show_version |-> ExecRaised,
                       show_nve_peers |-> ExecRaised, show_nve_vni |-> ExecRaised,
                       show_bgp_evpn_summary |-> ExecRaised, show_nve_counters |-> e],
            leaf2 |-> UnreachableDevice] : e \in Execs(CounterOutputs)}
    /\ library = [parameters_getattr |-> TRUE, parent_hasattr |-> TRUE,
                  setup_failure_blocks |-> FALSE]
    /\ device_info = [d \in Devices |-> [connected |-> testbed[d].connects]]
    /\ setup_failed = TRUE
    /\ test_results = [c \in ClassNames |-> EmptyDict]
    /\ device_metrics = [c \in ClassNames |-> EmptyDict]
    /\ steps = {}
    /\ pc = "test_interface_statistics"
    /\ report = EmptyDict

NextCounters == TestInterfaceStatistics

SpecCounters == InitCounters /\ [][NextCounters]_vars

----------------------------------------------------------------------------
(* Claims on the error-count metric *)

\* the line contains a fault keyword
HasFaultKeyword(line) ==
    \E k \in 1..Len(error_patterns) :
        \E j \in 1..Len(line) : Lower(line[j]) \in TokensWith(error_patterns[k])

\* the sum of the numbers above the floor
RECURSIVE SumAboveFloor(_)
SumAboveFloor(numbers) ==
    IF numbers = <<>> THEN 0
    ELSE (IF Head(numbers) > ErrorCounterThreshold THEN Head(numbers) ELSE 0)
         + SumAboveFloor(Tail(numbers))

\* the sum, over the lines with a fault keyword, of the counter values above
\* the floor, each value once
RECURSIVE ClaimedErrorCount(_)
ClaimedErrorCount(output) ==
    IF output = <<>> THEN 0
    ELSE (IF HasFaultKeyword(Head(output)) THEN SumAboveFloor(numbers_of(Head(output)))
          ELSE 0)
         + ClaimedErrorCount(Tail(output))

\* the statistics test has run on leaf1 and its command gave an output
CountersRead ==
    /\ pc = "generate_summary_report"
    /\ ~testbed["leaf1"].show_nve_counters.raised

\* the metric recorded for leaf1
RecordedErrorCount == device_metrics["VXLANHealthMonitoring"]["leaf1"]["nve_error_count"]

\* C18: the NVE error-count metric is the sum of exactly those counter
\* values, found on lines containing a fault keyword (error, drop, discard,
\* invalid), that exceed the configured error-counter floor: values at or
\* below the floor contribute nothing, and each counter value is added at
\* most once even when its line matches more than one keyword.
C18_ErrorCountMetric ==
    CountersRead =>
        RecordedErrorCount = ClaimedErrorCount(testbed["leaf1"].show_nve_counters.output)

\* the lines on which C18 holds: one keyword and no number in 1..floor
PlainCounterLine(line) ==
    /\ Cardinality({k \in 1..Len(error_patterns) :
                       \E j \in 1..Len(line) :
                           Lower(line[j]) \in TokensWith(error_patterns[k])}) <= 1
    /\ \A n \in 1..Len(numbers_of(line)) :
           numbers_of(line)[n] = 0 \/ numbers_of(line)[n] > ErrorCounterThreshold

\* C18 on outputs made of such lines
C18_ErrorCountMetricPlainLines ==
    (CountersRead
        /\ \A i \in 1..Len(testbed["leaf1"].show_nve_counters.output) :
               PlainCounterLine(testbed["leaf1"].show_nve_counters.output[i]))
        => RecordedErrorCount = ClaimedErrorCount(testbed["leaf1"].show_nve_counters.output)

----------------------------------------------------------------------------
(* Claims on VNI lines with missing attributes *)

\* a line that starts with an identifier number, names L3 and has no VRF
\* token
L3LineWithoutVrf(line) ==
    VniMatches(line) /\ InLine("L3", line) /\ ~InLine("VRF:", line)

\* how many entries of the issue list have the text `fmt`
RECURSIVE CountIssues(_, _)
CountIssues(issues, fmt) ==
    IF issues = <<>> THEN 0
    ELSE (IF Head(issues).fmt = fmt THEN 1 ELSE 0) + CountIssues(Tail(issues), fmt)

\* how many of the lines are L3 lines without a VRF token
RECURSIVE CountL3WithoutVrf(_)
CountL3WithoutVrf(output) ==
    IF output = <<>> THEN 0
    ELSE (IF L3LineWithoutVrf(Head(output)) THEN 1 ELSE 0) + CountL3WithoutVrf(Tail(output))

\* the records of the L3 lines are the only ones that miss a VRF, and none
\* of them is taken for an L2 record that misses a VLAN
OneIssuePerL3WithoutVrf(output, result) ==
    /\ "issues" \in DOMAIN result.details
    /\ CountIssues(result.details.issues, "L3 VNI {vni.vni} missing VRF association")
           = CountL3WithoutVrf(output)
    /\ CountIssues(result.details.issues, "L2 VNI {vni.vni} missing VLAN association")
           = Len(SelectSeq(parse_vni_info(output),
                           LAMBDA vni : vni.type = "L2" /\ vni.vlan = None))

\* the output holds an L3 line without a VRF token and validation reached
\* its records
L3WithoutVrfValidated ==
    /\ VnisParsed
    /\ \E i \in 1..Len(call.arg.output) : L3LineWithoutVrf(call.arg.output[i])

\* C19: an L3 VNI line without a VRF token is parsed into a record with vrf
\* unset, and VNI validation of that record reports exactly one association
\* issue for it (the missing VRF); neither parsing nor validation raises.
C19_L3WithoutVrf ==
    L3WithoutVrfValidated =>
        /\ \A i \in 1..Len(call.arg.output) :
              L3LineWithoutVrf(call.arg.output[i]) =>
                  /\ parse_vni_line(call.arg.output[i]).type = "L3"
                  /\ parse_vni_line(call.arg.output[i]).vrf = None
        /\ ~IsRaised(ret)
        /\ OneIssuePerL3WithoutVrf(call.arg.output, ret)

\* C19 where the configuration is valid (max_vni_count is not 0)
C19_L3WithoutVrfValidConfig == max_vni_count # 0 => C19_L3WithoutVrf

----------------------------------------------------------------------------
(* Claims on the records VNI parsing yields *)

\* a VNI parser was called on an output and is back
VniParserReturned ==
    Returned("VXLANParser.parse_vni_info") \/ Returned("VxlanParser.parse_vni_information")

\* the lines of the output that start with an identifier number, in order
IdentifierLines(output) == SelectSeq(output, VniMatches)

\* the line has no recognizable VLAN, VRF or state attribute
NoAttributes(line) ==
    /\ AfterLabel(line, "VLAN:", DigitTokens \cup {"0100"}, 1) = None
    /\ AfterLabel(line, "VRF:", WordStartTokens, 1) = None
    /\ ~InLine("Up", line)
    /\ ~InLine("Down", line)

\* the state field of a record whose state was not set: None, and for the
\* monolithic dataclass the "Unknown" it starts with
StateUnset(fn) == IF fn = "VxlanParser.parse_vni_information" THEN "Unknown" ELSE None

\* one record per line that starts with an identifier, in line order, and
\* with every optional field unset where the line has no attribute
OneRecordPerIdentifierLine(fn, output, vnis) ==
    LET lines == IdentifierLines(output)
    IN  /\ Len(vnis) = Len(lines)
        /\ \A k \in 1..Len(lines) :
              /\ vnis[k].vni = IntOf(lines[k][1])
              /\ NoAttributes(lines[k]) =>
                    (vnis[k].vlan = None /\ vnis[k].vrf = None
                     /\ vnis[k].state = StateUnset(fn))

\* C20: VNI parsing yields exactly one record per line that starts with an
\* identifier number, duplicates included; a line that has the identifier
\* but no recognizable VLAN, VRF or state attribute still yields a record,
\* with vlan, vrf and state all unset.
C20_OneRecordPerLine ==
    VniParserReturned => OneRecordPerIdentifierLine(call.fn, call.arg, ret.vnis)

\* C20 for VXLANParser.parse_vni_info
C20_OneRecordPerLineModular ==
    Returned("VXLANParser.parse_vni_info") =>
        OneRecordPerIdentifierLine(call.fn, call.arg, ret.vnis)

\* C20 for the monolithic parser on outputs without a line that holds an
\* identifier alone
C20_OneRecordPerLineMonolithic ==
    (Returned("VxlanParser.parse_vni_information")
        /\ \A i \in 1..Len(call.arg) : VniMatches(call.arg[i]) => Len(call.arg[i]) > 1)
        => OneRecordPerIdentifierLine(call.fn, call.arg, ret.vnis)

\* the modular parser has kept two lines with the same identifier and a line
\* with the identifier alone
DuplicatesAndBareLineKept ==
    /\ Returned("VXLANParser.parse_vni_info")
    /\ Len(ret.vnis) = 2
    /\ ret.vnis[1].vni = ret.vnis[2].vni
    /\ \E i \in 1..Len(call.arg) : call.arg[i] = <<"10100">>

----------------------------------------------------------------------------
(* Claims on generating the summary again *)

\* the report is the one the recorded results and metrics determine
ReportDetermined == pc \in {"done", "regenerated"} => report = summary_report

\* generating the summary again changes neither the report nor what is
\* recorded
RegenerationChangesNothing ==
    pc = "done" =>
        /\ report' = report
        /\ test_results' = test_results
        /\ device_metrics' = device_metrics

----------------------------------------------------------------------------
(* Claims on feature validation *)

\* the words of a required feature's name as the output prints them
FeatureWords(feature) ==
    IF feature = "nv overlay" THEN <<"nv", "overlay">> ELSE <<feature>>

\* a line for the feature: its name, an instance number and a status
LineFor(feature, line) ==
    /\ Len(line) = Len(FeatureWords(feature)) + 2
    /\ SubSeq(line, 1, Len(FeatureWords(feature))) = FeatureWords(feature)

\* the status the output reports for the feature, from its last line, or
\* None when the output has no line for it
RECURSIVE ReportedStatus(_, _)
ReportedStatus(feature, output) ==
    IF output = <<>> THEN None
    ELSE IF LineFor(feature, output[Len(output)])
    THEN Some(Lower(output[Len(output)][Len(output[Len(output)])]))
    ELSE ReportedStatus(feature, SubSeq(output, 1, Len(output) - 1))

RequiredFeatureNames == {"vn-segment-vlan-based", "nv overlay"}

\* the features a result's details list under `key`
Listed(result, key) ==
    IF key \notin DOMAIN result.details THEN {}
    ELSE {IF key = "disabled" THEN result.details[key][k][1] ELSE result.details[key][k] :
             k \in 1..Len(result.details[key])}

\* feature validation is back from an output
FeaturesReturned == Returned("validate_vxlan_features") /\ ~call.arg.raised

\* the rule of C26 for one required feature
FeatureClassified(feature, output, result) ==
    LET status == ReportedStatus(feature, output)
    IN  /\ feature \in Listed(result, "missing") <=> status = None
        /\ feature \in Listed(result, "disabled") <=>
               (status # None /\ status # Some("enabled"))

\* C26: feature validation returns passed=true exactly when the 'show
\* feature' output reports both required features, 'vn-segment-vlan-based'
\* and 'nv overlay', as enabled; otherwise it returns passed=false with
\* severity=critical, and each required feature that is not enabled is
\* classified as exactly one of missing (no line for it in the output) or
\* disabled (a line for it with a status other than enabled).
C26_FeatureRule ==
    FeaturesReturned =>
        /\ ret.passed <=>
               \A f \in RequiredFeatureNames :
                   ReportedStatus(f, call.arg.output) = Some("enabled")
        /\ ~ret.passed =>
               /\ ret.severity = "critical"
               /\ \A f \in RequiredFeatureNames : FeatureClassified(f, call.arg.output, ret)

\* what the code does instead: 'nv overlay' is always missing and the check
\* never passes; 'vn-segment-vlan-based' is classified as C26 says
C26_FeatureRuleAsCoded ==
    FeaturesReturned =>
        /\ ~ret.passed
        /\ ret.severity = "critical"
        /\ "nv overlay" \in Listed(ret, "missing")
        /\ FeatureClassified("vn-segment-vlan-based", call.arg.output, ret)


\* both required features are reported enabled and the check has failed
BothEnabledYetFailed ==
    /\ FeaturesReturned
    /\ \A f \in RequiredFeatureNames : ReportedStatus(f, call.arg.output) = Some("enabled")
    /\ ~ret.passed


\* ---------------------------------------------------------------------
\* C27: NVE interface validation on the output of `show interface nve1`

InterfaceReturned ==
    /\ rpc = "returned"
    /\ call.fn = "validate_nve_interface"
    /\ ~call.arg.raised

NotConfigured(output) ==
    \/ PhraseInOutputLower(<<"invalid", "interface">>, output)
    \/ PhraseInOutputLower(<<"not", "found">>, output)

AdministrativelyDown(output) ==
    PhraseInOutputLower(<<"administratively", "down">>, output)

LineProtocolUp(output) ==
    PhraseInOutputLower(<<"line", "protocol", "is", "up">>, output)

HasSourceInterface(output) == InOutputLower("source-interface", output)

\* the first failing condition of the output, in the order of the checks
FirstFailing(output) ==
    IF NotConfigured(output)
    THEN [message |-> "NVE1 interface not configured", severity |-> "critical"]
    ELSE IF AdministrativelyDown(output)
    THEN [message |-> "NVE1 interface is administratively down", severity |-> "error"]
    ELSE IF ~LineProtocolUp(output)
    THEN [message |-> "NVE1 interface line protocol is down", severity |-> "error"]
    ELSE [message |-> "NVE1 missing source-interface configuration",
          severity |-> "error"]

\* C27: the NVE interface validation passes exactly when the output holds
\* neither 'invalid interface' nor 'not found' nor 'administratively down'
\* and holds both 'line protocol is up' and 'source-interface', in any
\* letter case; otherwise it reports the first failing condition only, in
\* the order not configured (critical), administratively down (error),
\* line protocol down (error), missing source-interface (error).
C27_NveInterfaceRule ==
    InterfaceReturned =>
        LET output == call.arg.output
            good == /\ ~NotConfigured(output)
                    /\ ~AdministrativelyDown(output)
                    /\ LineProtocolUp(output)
                    /\ HasSourceInterface(output)
        IN /\ ret.passed <=> good
           /\ ~ret.passed =>
                /\ ret.message = Msg(FirstFailing(output).message, <<>>)
                /\ ret.severity = FirstFailing(output).severity

\* an output that is both not found and administratively down, reported as
\* not configured
C27_Witness ==
    /\ InterfaceReturned
    /\ NotConfigured(call.arg.output)
    /\ AdministrativelyDown(call.arg.output)
    /\ ret.severity = "critical"

\* a capitalised output that passes
C27_PassesInAnyCase ==
    /\ InterfaceReturned
    /\ call.arg.output = <<<<"Line", "Protocol", "is", "up">>,
                           <<"Source-Interface:", "loopback1">>>>
    /\ ret.passed
    /\ ret.details.source_interface = "loopback1"


\* ---------------------------------------------------------------------
\* The order of the summary: one test class, VXLANInterfaceValidation,
\* whose two tests record into dicts that keep insertion order, as
\* Python's do; `test_results` and `device_metrics` are here the dicts of
\* that one instance, `steps` the steps in the order they ran, `report`
\* the lines logged

\* a dict in insertion order: its (key, value) pairs
od_keys(od) == [i \in 1..Len(od) |-> od[i][1]]

od_has(od, key) == \E i \in 1..Len(od) : od[i][1] = key

od_get(od, key, default) ==
    IF od_has(od, key)
    THEN od[CHOOSE i \in 1..Len(od) : od[i][1] = key][2]
    ELSE default

\* od[key] = value: a key already held keeps its place
od_set(od, key, value) ==
    IF od_has(od, key)
    THEN [i \in 1..Len(od) |-> IF od[i][1] = key THEN <<key, value>> ELSE od[i]]
    ELSE Append(od, <<key, value>>)

\* a.update(b)
RECURSIVE od_update(_, _)
od_update(a, b) ==
    IF b = <<>> THEN a
    ELSE od_update(od_set(a, Head(b)[1], Head(b)[2]), Tail(b))

\* BaseVXLANTest.record_test_result on a dict in insertion order
record_test_result_ordered(results, device_name, test_name, result) ==
    od_set(results, device_name,
           od_set(od_get(results, device_name, <<>>), test_name, result))

\* BaseVXLANTest.record_metric on a dict in insertion order
record_metric_ordered(metrics, device_name, metric_name, value) ==
    od_set(metrics, device_name,
           od_set(od_get(metrics, device_name, <<>>), metric_name, value))

RECURSIVE record_metrics_ordered(_, _, _, _)
record_metrics_ordered(metrics, device_name, pairs, i) ==
    IF i > Len(pairs) THEN metrics
    ELSE record_metrics_ordered(
             record_metric_ordered(metrics, device_name, pairs[i][1], pairs[i][2]),
             device_name, pairs, i + 1)

\* the loop of a structured test over the connected devices, from the i-th on
RECURSIVE structured_test_ordered(_, _, _, _)
structured_test_ordered(inst, check, connected_devices, i) ==
    IF i > Len(connected_devices) THEN inst
    ELSE LET device_name == connected_devices[i]
             result == validate_and_process(ValidatorOutcome(check, device_name))
         IN  structured_test_ordered(
                 [test_results |->
                      record_test_result_ordered(inst.test_results, device_name, check,
                                                 result),
                  device_metrics |->
                      record_metrics_ordered(inst.device_metrics, device_name,
                                             MetricsOf(check, result), 1),
                  steps |-> Append(inst.steps, [check |-> check, device |-> device_name])],
                 check, connected_devices, i + 1)

StructuredTestOrdered(check) ==
    LET inst == structured_test_ordered(
                    [test_results |-> test_results, device_metrics |-> device_metrics,
                     steps |-> steps],
                    check, get_connected_devices, 1)
    IN  /\ test_results' = inst.test_results
        /\ device_metrics' = inst.device_metrics
        /\ steps' = inst.steps
        /\ UNCHANGED <<max_vni_count, call, ret, rpc, testbed, library, device_info,
                       setup_failed, report>>

\* VXLANInterfaceValidation.test_nve_interface_status
TestNveInterfaceStatus ==
    /\ pc = "test_nve_interface_status"
    /\ StructuredTestOrdered("nve_interface_status")
    /\ pc' = "test_nve_peer_relationships"

\* VXLANInterfaceValidation.test_nve_peer_relationships, followed by the
\* common cleanup
TestNvePeerRelationshipsOrdered ==
    /\ pc = "test_nve_peer_relationships"
    /\ StructuredTestOrdered("nve_peer_relationships")
    /\ pc' = "generate_summary_report"

\* the names of a device's results that satisfy `keep`, in dict order
names_where(device_results, keep(_)) ==
    od_keys(SelectSeq(device_results, LAMBDA pair : keep(pair[2])))

\* the lines for the tests of one device, with the passed tests put first
device_test_lines_passed_first(device_name, device_results) ==
    LET passed_tests == names_where(device_results, LAMBDA r : r.passed)
        failed_tests == names_where(device_results, LAMBDA r : ~r.passed)
    IN  IF device_results = <<>> THEN <<>>
        ELSE <<[kind |-> "counts", device |-> device_name,
                passed |-> Len(passed_tests), failed |-> Len(failed_tests)]>>
             \o (IF passed_tests = <<>> THEN <<>>
                 ELSE <<[kind |-> "passed", device |-> device_name,
                         tests |-> passed_tests]>>)
             \o [i \in 1..Len(failed_tests) |->
                    [kind |-> "failed", device |-> device_name, test |-> failed_tests[i],
                     message |-> od_get(device_results, failed_tests[i], <<>>).message]]

\* the lines generate_summary_report logs for the tests of one device: the
\* counts, one line per failed test, one line naming the passed tests
device_test_lines(device_name, device_results) ==
    LET passed_tests == names_where(device_results, LAMBDA r : r.passed)
        failed_tests == names_where(device_results, LAMBDA r : ~r.passed)
    IN  IF device_results = <<>> THEN <<>>
        ELSE <<[kind |-> "counts", device |-> device_name,
                passed |-> Len(passed_tests), failed |-> Len(failed_tests)]>>
             \o [i \in 1..Len(failed_tests) |->
                    [kind |-> "failed", device |-> device_name, test |-> failed_tests[i],
                     message |-> od_get(device_results, failed_tests[i], <<>>).message]]
             \o (IF passed_tests = <<>> THEN <<>>
                 ELSE <<[kind |-> "passed", device |-> device_name,
                         tests |-> passed_tests]>>)

\* the Key Metrics lines of one device
device_metric_lines(device_name, metrics) ==
    [i \in 1..Len(metrics) |->
        [kind |-> "metric", device |-> device_name, metric |-> metrics[i][1],
         value |-> metrics[i][2]]]

\* the per-device part of the report, from the i-th device of the testbed on
RECURSIVE device_summaries(_, _, _)
device_summaries(all_results, all_metrics, i) ==
    IF i > Len(DeviceOrder) THEN <<>>
    ELSE LET device_name == DeviceOrder[i]
         IN  <<[kind |-> "device", device |-> device_name]>>
             \o device_test_lines(device_name, od_get(all_results, device_name, <<>>))
             \o device_metric_lines(device_name, od_get(all_metrics, device_name, <<>>))
             \o device_summaries(all_results, all_metrics, i + 1)

\* the devices with no failed result of severity error or critical
healthy_devices_ordered(all_results) ==
    {d \in Devices :
        LET device_results == od_get(all_results, d, <<>>)
        IN  ~\E i \in 1..Len(device_results) :
                /\ ~device_results[i][2].passed
                /\ device_results[i][2].severity \in {"error", "critical"}}

\* the lines generate_summary_report logs
summary_lines ==
    LET all_results == IF library.parent_hasattr THEN od_update(<<>>, test_results)
                       ELSE <<>>
        all_metrics == IF library.parent_hasattr THEN od_update(<<>>, device_metrics)
                       ELSE <<>>
    IN  device_summaries(all_results, all_metrics, 1)
        \o <<[kind |-> "overall", total_devices |-> Cardinality(Devices),
              healthy_devices |-> Cardinality(healthy_devices_ordered(all_results))]>>

\* CommonCleanup.generate_summary_report
LogSummaryReport ==
    /\ pc = "generate_summary_report"
    /\ report' = summary_lines
    /\ pc' = "done"
    /\ UNCHANGED <<max_vni_count, call, ret, rpc, testbed, library, device_info,
                   setup_failed, test_results, device_metrics, steps>>

\* what `show interface nve1` can give on a device of the run
RunInterfaceOutputs ==
    {<<<<"nve1", "is", "up", "line", "protocol", "is", "up">>,
       <<"source-interface:", "loopback1">>>>,
     <<<<"nve1", "is", "administratively", "down", "line", "protocol", "is", "down">>>>}

SummaryTestbeds ==
    [Devices ->
        [connects : {TRUE},
         show_nve_interface : Execs(RunInterfaceOutputs),
         show_nve_peers : Execs(RunPeerOutputs)]
        \cup {[connects |-> FALSE, show_nve_interface |-> ExecRaised,
               show_nve_peers |-> ExecRaised]}]

\* the state after the common setup, before the tests of the class
InitSummary ==
    /\ max_vni_count = DefaultMaxVniCount
    /\ call = Call("aetest.main", EmptyDict)
    /\ ret = NoReturn
    /\ rpc = "run"
    /\ testbed \in SummaryTestbeds
    /\ library \in {l \in Libraries : ~l.setup_failure_blocks}
    /\ device_info = [d \in Devices |-> [connected |-> testbed[d].connects]]
    /\ setup_failed = (\E d \in Devices : ~testbed[d].connects)
    /\ test_results = <<>>
    /\ device_metrics = <<>>
    /\ steps = <<>>
    /\ pc = "test_nve_interface_status"
    /\ report = <<>>

NextSummary ==
    \/ TestNveInterfaceStatus
    \/ TestNvePeerRelationshipsOrdered
    \/ LogSummaryReport

SpecSummary == InitSummary /\ [][NextSummary]_vars


\* ---------------------------------------------------------------------
\* C22: the order of the summary

\* the devices of the report's device headings, in the order logged
ListedDevices ==
    LET headings == SelectSeq(report, LAMBDA line : line.kind = "device")
    IN  [i \in 1..Len(headings) |-> headings[i].device]

\* the checks the report names for device d, in the order logged
RECURSIVE ListedChecksFrom(_, _)
ListedChecksFrom(lines, d) ==
    IF lines = <<>> THEN <<>>
    ELSE LET line == Head(lines)
         IN  (IF line.kind = "failed" /\ line.device = d THEN <<line.test>>
              ELSE IF line.kind = "passed" /\ line.device = d THEN line.tests
              ELSE <<>>)
             \o ListedChecksFrom(Tail(lines), d)

ListedChecks(d) == ListedChecksFrom(report, d)

\* the checks recorded for device d, in the order they were first recorded
RECURSIVE FirstRecordedFrom(_, _, _)
FirstRecordedFrom(log, d, seen) ==
    IF log = <<>> THEN <<>>
    ELSE LET step == Head(log)
         IN  IF step.device = d /\ step.check \notin seen
             THEN <<step.check>> \o FirstRecordedFrom(Tail(log), d, seen \cup {step.check})
             ELSE FirstRecordedFrom(Tail(log), d, seen)

FirstRecorded(d) == FirstRecordedFrom(steps, d, {})

NamedFor(d) == {ListedChecks(d)[i] : i \in 1..Len(ListedChecks(d))}

RecordedPassed(d, check) == od_get(od_get(test_results, d, <<>>), check, <<>>).passed

\* C22: the summary lists the devices in testbed declaration order and,
\* within each device, the checks in the order in which they were first
\* recorded.
C22_SummaryOrder ==
    pc = "done" =>
        /\ ListedDevices = DeviceOrder
        /\ \A d \in Devices :
              ListedChecks(d) = SelectSeq(FirstRecorded(d), LAMBDA c : c \in NamedFor(d))

\* C22 as the code has it: the devices in testbed declaration order and,
\* within each device, the failed checks in the order first recorded and
\* after them the passed checks in the order first recorded.
C22_SummaryOrderFailedFirst ==
    pc = "done" =>
        /\ ListedDevices = DeviceOrder
        /\ \A d \in Devices :
              ListedChecks(d) =
                  SelectSeq(FirstRecorded(d),
                            LAMBDA c : c \in NamedFor(d) /\ ~RecordedPassed(d, c))
                  \o SelectSeq(FirstRecorded(d),
                               LAMBDA c : c \in NamedFor(d) /\ RecordedPassed(d, c))

\* the second device's first check passed and its second failed; the report
\* names the second before the first
C22_Witness ==
    /\ pc = "done"
    /\ FirstRecorded("leaf2") = <<"nve_interface_status", "nve_peer_relationships">>
    /\ RecordedPassed("leaf2", "nve_interface_status")
    /\ ~RecordedPassed("leaf2", "nve_peer_relationships")
    /\ ListedChecks("leaf2") = <<"nve_peer_relationships", "nve_interface_status">>
    /\ Len(ListedChecks("leaf1")) = 2


\* ---------------------------------------------------------------------
\* vxlan_utils.py: DeviceExecutor.execute_with_fallback, one
\* execute_command per step; `call` holds the arguments, `pc` the position
\* in the method, `steps` the commands executed so far with what each gave,
\* `ret` what the method returned or raised

MaxFallbacks == 2

FallbackCommandNames == {show_nve_peers, show_nve_vni}

FallbackCalls ==
    {Call("execute_with_fallback",
          [primary_command |-> p, fallback_commands |-> f]) :
        p \in FallbackCommandNames, f \in SeqUpTo(FallbackCommandNames, MaxFallbacks)}

\* what DeviceExecutor.execute_command can give for a command: an output,
\* or CommandExecutionError raised
AttemptOutcomes == Execs({<<PeerHeader>>, <<VniHeader>>})

InitFallback ==
    /\ max_vni_count = DefaultMaxVniCount
    /\ call \in FallbackCalls
    /\ ret = NoReturn
    /\ rpc = "ready"
    /\ testbed = EmptyDict
    /\ library = EmptyDict
    /\ device_info = EmptyDict
    /\ setup_failed = FALSE
    /\ test_results = EmptyDict
    /\ device_metrics = EmptyDict
    /\ steps = <<>>
    /\ pc = [at |-> "primary", i |-> 0]
    /\ report = EmptyDict

FallbackFrame ==
    UNCHANGED <<max_vni_count, call, testbed, library, device_info, setup_failed,
                test_results, device_metrics, report>>

\* return self.execute_command(primary_command), or its except clause entered
TryPrimary ==
    /\ pc.at = "primary"
    /\ \E e \in AttemptOutcomes :
          /\ steps' = Append(steps, [command |-> call.arg.primary_command, exec |-> e])
          /\ IF e.raised
             THEN /\ pc' = [at |-> "fallback", i |-> 1]
                  /\ UNCHANGED <<ret, rpc>>
             ELSE /\ pc' = [at |-> "end", i |-> 0]
                  /\ ret' = e
                  /\ rpc' = "returned"
    /\ FallbackFrame

\* a loop over the fallbacks that goes on to the next one after a success too
TryFallbackKeepsGoing ==
    /\ pc.at = "fallback"
    /\ pc.i <= Len(call.arg.fallback_commands)
    /\ \E e \in AttemptOutcomes :
          /\ steps' = Append(steps, [command |-> call.arg.fallback_commands[pc.i],
                                     exec |-> e])
          /\ IF e.raised \/ pc.i < Len(call.arg.fallback_commands)
             THEN /\ pc' = [at |-> "fallback", i |-> pc.i + 1]
                  /\ UNCHANGED <<ret, rpc>>
             ELSE /\ pc' = [at |-> "end", i |-> 0]
                  /\ ret' = e
                  /\ rpc' = "returned"
    /\ FallbackFrame

\* one turn of `for fallback_cmd in fallback_commands`: return
\* self.execute_command(fallback_cmd), or continue
TryFallback ==
    /\ pc.at = "fallback"
    /\ pc.i <= Len(call.arg.fallback_commands)
    /\ \E e \in AttemptOutcomes :
          /\ steps' = Append(steps, [command |-> call.arg.fallback_commands[pc.i],
                                     exec |-> e])
          /\ IF e.raised
             THEN /\ pc' = [at |-> "fallback", i |-> pc.i + 1]
                  /\ UNCHANGED <<ret, rpc>>
             ELSE /\ pc' = [at |-> "end", i |-> 0]
                  /\ ret' = e
                  /\ rpc' = "returned"
    /\ FallbackFrame

\* the loop is over: raise CommandExecutionError for the primary command
RaiseAllFailed ==
    /\ pc.at = "fallback"
    /\ pc.i > Len(call.arg.fallback_commands)
    /\ ret' = [raised |-> TRUE, output |-> <<>>,
               error |-> [message |-> "All commands failed including fallbacks",
                          command |-> call.arg.primary_command]]
    /\ rpc' = "raised"
    /\ pc' = [at |-> "end", i |-> 0]
    /\ UNCHANGED steps
    /\ FallbackFrame

NextFallback ==
    \/ TryPrimary
    \/ TryFallback
    \/ RaiseAllFailed

\* every execute_command returns or raises, so the method takes its next step
SpecFallback == InitFallback /\ [][NextFallback]_vars /\ WF_vars(NextFallback)

\* ---------------------------------------------------------------------
\* C24: execute_with_fallback

\* the primary command and then the fallbacks, in list order
CommandsInOrder == <<call.arg.primary_command>> \o call.arg.fallback_commands

AttemptsInOrder ==
    /\ Len(steps) <= 1 + Len(call.arg.fallback_commands)
    /\ \A k \in 1..Len(steps) : steps[k].command = CommandsInOrder[k]
    /\ \A k \in 1..(Len(steps) - 1) : steps[k].exec.raised

ReturnsFirstSuccess ==
    rpc = "returned" =>
        /\ ~steps[Len(steps)].exec.raised
        /\ ret = steps[Len(steps)].exec

RaisesOnlyWhenAllFailed ==
    rpc = "raised" =>
        /\ Len(steps) = 1 + Len(call.arg.fallback_commands)
        /\ \A k \in 1..Len(steps) : steps[k].exec.raised
        /\ ret.raised
        /\ ret.error.command = call.arg.primary_command

\* once the method has returned or raised, no command is executed
NoCommandAfterEnd == pc.at = "end" => steps' = steps

\* C24: execute_with_fallback tries the primary command and then the
\* fallbacks in list order, returns the output of the first command that
\* succeeds and runs no command after it, raises CommandExecutionError only
\* when the primary and every fallback failed, makes at most
\* 1 + len(fallback_commands) attempts and terminates.
C24_Fallback ==
    /\ [](AttemptsInOrder /\ ReturnsFirstSuccess /\ RaisesOnlyWhenAllFailed)
    /\ [][NoCommandAfterEnd]_vars
    /\ <>(pc.at = "end")

\* the primary and the first fallback failed, the second fallback gave the
\* output returned
C24_Witness ==
    /\ rpc = "returned"
    /\ Len(steps) = 3
    /\ steps[1].exec.raised
    /\ steps[2].exec.raised
    /\ ret = steps[3].exec

\* every command failed and the method raised
C24_AllFailed ==
    /\ rpc = "raised"
    /\ Len(steps) = 3


\* ---------------------------------------------------------------------
\* C23: get_connected_devices

\* the devices whose connection attempt succeeded in the common setup
ConnectionSucceeded == {d \in Devices : testbed[d].connects}

ReturnedDevices ==
    {get_connected_devices[i] : i \in 1..Len(get_connected_devices)}

SetupOver == pc \notin {"connect_to_devices"}

\* no step, and so no command of a check, for a device that did not connect
NoCommandToFailedDevice == \A s \in steps : testbed[s.device].connects

\* C23: get_connected_devices returns exactly the testbed devices whose
\* connection attempt succeeded in the common setup: every such device is
\* included, so every check runs on it, and no device whose connection
\* failed is included, so no command is ever sent to it.
C23_ConnectedDevices ==
    /\ SetupOver => ReturnedDevices = ConnectionSucceeded
    /\ pc = "done" => EveryConnectedDeviceChecked
    /\ NoCommandToFailedDevice

\* C23, the half on the devices whose connection failed
C23_NoFailedDeviceIncluded ==
    /\ SetupOver => ReturnedDevices \subseteq ConnectionSucceeded
    /\ NoCommandToFailedDevice

\* C23 where the attribute lookup finds the stored device_info
C23_ConnectedDevicesWhereFound ==
    (SetupOver /\ library.parameters_getattr) => ReturnedDevices = ConnectionSucceeded

\* a device connected and get_connected_devices does not return it
ConnectedDeviceLeftOut ==
    /\ pc = "done"
    /\ \E d \in ConnectionSucceeded : d \notin ReturnedDevices


\* ---------------------------------------------------------------------
\* base_test.py: BaseVXLANTest.process_validation_result, in its two parts:
\* the result recorded, then the outcome called on the step; `call` holds
\* the arguments, `test_results` the dict of the test instance, `steps` the
\* outcome the step object was given

Severities == {"info", "warning", "error", "critical", "debug"}

\* the results a validator or a step boundary can hand over, and results
\* with any other pairing of passed and severity
ProcessedResults ==
    {create_result(passed, Msg("{message}", <<>>), NoDetails, severity) :
        passed \in BOOLEAN, severity \in Severities}

RecommendationLists == {<<>>, <<"Check device connectivity and configuration">>}

ProcessCalls ==
    {Call("process_validation_result",
          [device_name |-> d, test_name |-> t, result |-> r, recommendations |-> recs]) :
        d \in {"leaf1"}, t \in {"nve_interface_status", "nve_peer_relationships"},
        r \in ProcessedResults, recs \in RecommendationLists}

StepOpen == [outcome |-> "open"]

\* the message process_validation_result builds for a step that did not pass
failure_msg(result, recommendations) ==
    [message |-> result.message, recommendations |-> recommendations]

\* the step outcome with a warning taken as a skip
step_outcome_warning_skipped(result, recommendations) ==
    IF result.passed
    THEN [outcome |-> "passed", reason |-> result.message]
    ELSE IF result.severity \in {"critical", "error"}
    THEN [outcome |-> "failed", reason |-> failure_msg(result, recommendations)]
    ELSE [outcome |-> "skipped", reason |-> failure_msg(result, recommendations)]

\* the call process_validation_result makes on the step
step_outcome(result, recommendations) ==
    IF result.passed
    THEN [outcome |-> "passed", reason |-> result.message]
    ELSE IF result.severity = "critical"
    THEN [outcome |-> "failed", reason |-> failure_msg(result, recommendations)]
    ELSE IF result.severity = "error"
    THEN [outcome |-> "failed", reason |-> failure_msg(result, recommendations)]
    ELSE IF result.severity = "warning"
    THEN [outcome |-> "failed", reason |-> failure_msg(result, recommendations)]
    ELSE [outcome |-> "skipped", reason |-> failure_msg(result, recommendations)]

\* the dicts a test instance can hold when a result comes in: nothing yet,
\* an earlier result of the same device, or of the other device
EarlierResults ==
    {EmptyDict}
        \cup {record_test_result(EmptyDict, d, "nve_interface_status", r) :
                d \in Devices,
                r \in {create_result(TRUE, Msg("{message}", <<>>), NoDetails, "info")}}

InitProcess ==
    /\ max_vni_count = DefaultMaxVniCount
    /\ call \in ProcessCalls
    /\ ret = NoReturn
    /\ rpc = "ready"
    /\ testbed = EmptyDict
    /\ library = EmptyDict
    /\ device_info = EmptyDict
    /\ setup_failed = FALSE
    /\ test_results \in EarlierResults
    /\ device_metrics = EmptyDict
    /\ steps = StepOpen
    /\ pc = "record_test_result"
    /\ report = EmptyDict

\* self.record_test_result(device_name, test_name, result)
ProcessRecord ==
    /\ pc = "record_test_result"
    /\ test_results' = record_test_result(test_results, call.arg.device_name,
                                          call.arg.test_name, call.arg.result)
    /\ pc' = "step"
    /\ UNCHANGED <<max_vni_count, call, ret, rpc, testbed, library, device_info,
                   setup_failed, device_metrics, steps, report>>

\* step.passed(...), step.failed(...) or step.skipped(...)
ProcessStep ==
    /\ pc = "step"
    /\ steps' = step_outcome(call.arg.result, call.arg.recommendations)
    /\ pc' = "end"
    /\ rpc' = "returned"
    /\ UNCHANGED <<max_vni_count, call, ret, testbed, library, device_info,
                   setup_failed, test_results, device_metrics, report>>

NextProcess ==
    \/ ProcessRecord
    \/ ProcessStep

SpecProcess == InitProcess /\ [][NextProcess]_vars

\* ---------------------------------------------------------------------
\* C25: process_validation_result

ResultIsRecorded ==
    /\ call.arg.device_name \in DOMAIN test_results
    /\ call.arg.test_name \in DOMAIN test_results[call.arg.device_name]
    /\ test_results[call.arg.device_name][call.arg.test_name] = call.arg.result

ClaimedOutcome(result) ==
    IF result.passed THEN "passed"
    ELSE IF result.severity \in {"warning", "error", "critical"} THEN "failed"
    ELSE "skipped"

\* C25: process_validation_result records the result before it reports the
\* step outcome; a passed result gives a passed step, a result that did not
\* pass gives a failed step when its severity is warning, error or critical
\* and a skipped step for any other severity.
C25_RecordThenOutcome ==
    /\ steps # StepOpen => ResultIsRecorded
    /\ pc = "end" => steps.outcome = ClaimedOutcome(call.arg.result)

\* a warning that did not pass: recorded, and the step failed
C25_Witness ==
    /\ pc = "end"
    /\ ~call.arg.result.passed
    /\ call.arg.result.severity = "warning"
    /\ ResultIsRecorded
    /\ steps.outcome = "failed"

\* a result of severity info that did not pass: the step is skipped
C25_Skipped ==
    /\ pc = "end"
    /\ ~call.arg.result.passed
    /\ call.arg.result.severity = "info"
    /\ steps.outcome = "skipped"


\* ---------------------------------------------------------------------
\* C28: passed and severity of a ValidationResult

SeverityMatchesPassed(result) ==
    /\ result.passed => result.severity = "info"
    /\ ~result.passed => result.severity \in {"warning", "error", "critical"}

\* the predicate of the summary and the one on the severity alone
SummaryPredicateIsSeverity(result) ==
    (~result.passed /\ result.severity \in {"error", "critical"})
        <=> result.severity \in {"error", "critical"}

\* the exceptions a validator can let through to the step boundary
StepBoundaryExceptions == {"VXLANTestException", "KeyError"}

\* C28: every ValidationResult produced by a validator or by the step
\* boundary has severity info when it passed and severity warning, error or
\* critical when it did not; so the predicate of the summary, not passed
\* and severity error or critical, is equivalent to severity error or
\* critical.
C28_SeverityMatchesPassed ==
    /\ rpc = "returned" =>
          /\ SeverityMatchesPassed(validate_and_process(ret))
          /\ SummaryPredicateIsSeverity(validate_and_process(ret))
    /\ \A exc \in StepBoundaryExceptions :
          /\ SeverityMatchesPassed(validate_and_process(Raised(exc)))
          /\ SummaryPredicateIsSeverity(validate_and_process(Raised(exc)))

\* the VNI validation handing on the verdict of its usage check: two VNIs
\* of a maximum of two
C28_Witness ==
    /\ rpc = "returned"
    /\ call.fn = "validate_vni_configuration"
    /\ ~ret.passed
    /\ ret.severity = "critical"
    /\ "usage_percentage" \in DOMAIN ret.details

\* a validator's result that passed with the default severity
C28_PassedIsInfo ==
    /\ rpc = "returned"
    /\ call.fn = "validate_nve_interface"
    /\ ret.passed
    /\ ret.severity = "info"


\* ---------------------------------------------------------------------
\* base_test.py: record_test_result and record_metric called one after the
\* other on one test instance; `test_results` and `device_metrics` are the
\* dicts of the instance, `call` the last call made, `steps` the calls made
\* so far

MaxRecordCalls == 3

SequentialRecordCalls ==
    {Call("record_test_result", [device_name |-> d, name |-> t, value |-> r]) :
        d \in Devices, t \in {"nve_interface_status", "nve_peer_relationships"},
        r \in {create_result(TRUE, Msg("{message}", <<>>), NoDetails, "info"),
               create_result(FALSE, Msg("{message}", <<>>), NoDetails, "error")}}
        \cup {Call("record_metric", [device_name |-> d, name |-> m, value |-> v]) :
                d \in Devices, m \in {"nve_peer_count", "nve_peers_up"}, v \in 0..1}

InitSequential ==
    /\ max_vni_count = DefaultMaxVniCount
    /\ call = Call("BaseVXLANTest.__init__", EmptyDict)
    /\ ret = NoReturn
    /\ rpc = "ready"
    /\ testbed = EmptyDict
    /\ library = EmptyDict
    /\ device_info = EmptyDict
    /\ setup_failed = FALSE
    /\ test_results = EmptyDict
    /\ device_metrics = EmptyDict
    /\ steps = <<>>
    /\ pc = "none"
    /\ report = EmptyDict

SequentialFrame ==
    UNCHANGED <<max_vni_count, ret, rpc, testbed, library, device_info, setup_failed,
                pc, report>>

\* BaseVXLANTest.record_test_result
RecordTestResultCall ==
    /\ Len(steps) < MaxRecordCalls
    /\ \E c \in SequentialRecordCalls :
          /\ c.fn = "record_test_result"
          /\ call' = c
          /\ steps' = Append(steps, c)
          /\ test_results' = record_test_result(test_results, c.arg.device_name,
                                                c.arg.name, c.arg.value)
    /\ UNCHANGED device_metrics
    /\ SequentialFrame

\* BaseVXLANTest.record_metric
RecordMetricCall ==
    /\ Len(steps) < MaxRecordCalls
    /\ \E c \in SequentialRecordCalls :
          /\ c.fn = "record_metric"
          /\ call' = c
          /\ steps' = Append(steps, c)
          /\ device_metrics' = record_metric(device_metrics, c.arg.device_name,
                                             c.arg.name, c.arg.value)
    /\ UNCHANGED test_results
    /\ SequentialFrame

NextSequential ==
    \/ RecordTestResultCall
    \/ RecordMetricCall

SpecSequential == InitSequential /\ [][NextSequential]_vars

\* ---------------------------------------------------------------------
\* C29: what record_test_result and record_metric change

\* the entry a dict of dicts holds for (device, name), if any
EntryOf(dict, d, name) ==
    IF d \in DOMAIN dict /\ name \in DOMAIN dict[d] THEN Some(dict[d][name]) ELSE None

EntryPairs(dict) == {<<d, name>> : d \in DOMAIN dict, name \in UNION {DOMAIN dict[x] : x \in DOMAIN dict}}

\* after the call, `after` holds the value for the pair of the call, and
\* for every other pair what `before` held
SetsOnlyThePair(before, after, c) ==
    /\ EntryOf(after, c.arg.device_name, c.arg.name) = Some(c.arg.value)
    /\ \A p \in EntryPairs(before) \cup EntryPairs(after) :
          p # <<c.arg.device_name, c.arg.name>>
              => EntryOf(after, p[1], p[2]) = EntryOf(before, p[1], p[2])

RecordFrameRule ==
    /\ call'.fn = "record_test_result" =>
          /\ SetsOnlyThePair(test_results, test_results', call')
          /\ device_metrics' = device_metrics
    /\ call'.fn = "record_metric" =>
          /\ SetsOnlyThePair(device_metrics, device_metrics', call')
          /\ test_results' = test_results

\* C29: record_test_result(device, check, r) sets the entry for (device,
\* check) to r, replacing any earlier entry for the pair, and leaves every
\* other recorded result and all recorded metrics unchanged;
\* record_metric(device, name, v) sets only the (device, name) metric and
\* leaves every other metric and all recorded results unchanged.
C29_RecordFrame == [][RecordFrameRule]_vars

\* a result recorded, a second check recorded for the device, and the
\* first result replaced: the second check's entry is still there
C29_Witness ==
    /\ Len(steps) = 3
    /\ steps[1].fn = "record_test_result"
    /\ steps[2].fn = "record_test_result"
    /\ steps[3].fn = "record_test_result"
    /\ steps[1].arg.device_name = steps[2].arg.device_name
    /\ steps[1].arg.name # steps[2].arg.name
    /\ steps[3].arg.device_name = steps[1].arg.device_name
    /\ steps[3].arg.name = steps[1].arg.name
    /\ steps[3].arg.value # steps[1].arg.value
    /\ EntryOf(test_results, steps[3].arg.device_name, steps[3].arg.name)
          = Some(steps[3].arg.value)
    /\ EntryOf(test_results, steps[2].arg.device_name, steps[2].arg.name)
          = Some(steps[2].arg.value)


\* ---------------------------------------------------------------------
\* enhanced_vxlan_testsuite.py: VXLANHealthMonitoring.test_resource_utilization
\* on one device, and after it the usage rule of the VNI validator on the
\* records parsed from the same output; `call` holds what the device gave
\* for `show nve vni`, `steps` the outcome of the step, `device_metrics` the
\* metrics of the test instance, `ret` what _validate_vni_usage gave

MaxUtilizationLines == 4

\* a small VXLAN_MAX_VNI_COUNT override with which three VNIs are 75 percent
UtilizationMaxVniCount == MaxUtilizationLines

UtilizationLines ==
    {<<"10100", "L2", "VLAN:", "100", "Up">>,
     <<"nve1", "10100", "L2", "Up">>}

UtilizationOutputs ==
    LET bodies == SeqUpTo(UtilizationLines, MaxUtilizationLines)
    IN  bodies \cup {<<VniHeader>> \o b : b \in bodies}

\* round(percentage, 2), in hundredths of a percent
round2(pct) == (2 * 100 * pct.num + pct.den) \div (2 * pct.den)

\* len([line for line in vni_output.split('\n') if re.match(r'^\s*\d+', line)])
RECURSIVE count_vni_lines(_)
count_vni_lines(vni_output) ==
    IF vni_output = <<>> THEN 0
    ELSE (IF VniMatches(Head(vni_output)) THEN 1 ELSE 0)
         + count_vni_lines(Tail(vni_output))

\* the body of the step with the warning cut taken for the critical one
resource_utilization_one_cut(exec, max_vnis) ==
    IF exec.raised
    THEN [metrics |-> <<>>,
          step |-> [outcome |-> "failed",
                    reason |-> Msg("Resource utilization check failed on {device_name}: {str(e)}",
                                   <<"device.execute">>)]]
    ELSE LET vni_count == count_vni_lines(exec.output)
         IN  IF max_vnis = 0
             THEN [metrics |-> <<(<<"current_vni_count", vni_count>>)>>,
                   step |-> [outcome |-> "failed",
                             reason |-> Msg("Resource utilization check failed on {device_name}: {str(e)}",
                                            <<"ZeroDivisionError">>)]]
             ELSE LET percentage == Percentage(vni_count, max_vnis)
                      metrics == <<(<<"current_vni_count", vni_count>>),
                                   (<<"vni_utilization_percent", round2(percentage)>>)>>
                  IN  IF PctAtLeast(percentage, VniUsageWarningPct)
                      THEN [metrics |-> metrics,
                            step |-> [outcome |-> "failed",
                                      reason |-> Msg("Critical VNI usage on {device_name}: {vni_count}/{max_vnis} ({percentage:.1f}%)",
                                                     <<vni_count, max_vnis>>)]]
                      ELSE [metrics |-> metrics,
                            step |-> [outcome |-> "passed",
                                      reason |-> Msg("VNI usage within acceptable limits on {device_name}: {vni_count}/{max_vnis} ({percentage:.1f}%)",
                                                     <<vni_count, max_vnis>>)]]

\* the body of the step of test_resource_utilization for one device: the
\* metrics it records, in order, and the outcome it gives the step
resource_utilization(exec, max_vnis) ==
    IF exec.raised
    THEN [metrics |-> <<>>,
          step |-> [outcome |-> "failed",
                    reason |-> Msg("Resource utilization check failed on {device_name}: {str(e)}",
                                   <<"device.execute">>)]]
    ELSE LET vni_count == count_vni_lines(exec.output)
         IN  IF max_vnis = 0
             THEN [metrics |-> <<(<<"current_vni_count", vni_count>>)>>,
                   step |-> [outcome |-> "failed",
                             reason |-> Msg("Resource utilization check failed on {device_name}: {str(e)}",
                                            <<"ZeroDivisionError">>)]]
             ELSE LET percentage == Percentage(vni_count, max_vnis)
                      metrics == <<(<<"current_vni_count", vni_count>>),
                                   (<<"vni_utilization_percent", round2(percentage)>>)>>
                  IN  IF PctAtLeast(percentage, VniUsageCriticalPct)
                      THEN [metrics |-> metrics,
                            step |-> [outcome |-> "failed",
                                      reason |-> Msg("Critical VNI usage on {device_name}: {vni_count}/{max_vnis} ({percentage:.1f}%)",
                                                     <<vni_count, max_vnis>>)]]
                      ELSE IF PctAtLeast(percentage, VniUsageWarningPct)
                      THEN [metrics |-> metrics,
                            step |-> [outcome |-> "failed",
                                      reason |-> Msg("High VNI usage on {device_name}: {vni_count}/{max_vnis} ({percentage:.1f}%)",
                                                     <<vni_count, max_vnis>>)]]
                      ELSE [metrics |-> metrics,
                            step |-> [outcome |-> "passed",
                                      reason |-> Msg("VNI usage within acceptable limits on {device_name}: {vni_count}/{max_vnis} ({percentage:.1f}%)",
                                                     <<vni_count, max_vnis>>)]]

InitUtilization ==
    /\ max_vni_count \in {DefaultMaxVniCount, UtilizationMaxVniCount, 0}
    /\ call \in {Call("show nve vni", e) : e \in Execs(UtilizationOutputs)}
    /\ ret = NoReturn
    /\ rpc = "ready"
    /\ testbed = EmptyDict
    /\ library = EmptyDict
    /\ device_info = EmptyDict
    /\ setup_failed = FALSE
    /\ test_results = EmptyDict
    /\ device_metrics = EmptyDict
    /\ steps = StepOpen
    /\ pc = "test_resource_utilization"
    /\ report = EmptyDict

\* VXLANHealthMonitoring.test_resource_utilization, the step of leaf1
TestResourceUtilization ==
    /\ pc = "test_resource_utilization"
    /\ LET done == resource_utilization(call.arg, max_vni_count)
       IN  /\ device_metrics' = record_metrics(device_metrics, "leaf1", done.metrics, 1)
           /\ steps' = done.step
    /\ pc' = "_validate_vni_usage"
    /\ UNCHANGED <<max_vni_count, call, ret, rpc, testbed, library, device_info,
                   setup_failed, test_results, report>>

\* self._validate_vni_usage(len(vnis)) on the records parsed from the output
ValidateParsedVniUsage ==
    /\ pc = "_validate_vni_usage"
    /\ ~call.arg.raised
    /\ ret' = _validate_vni_usage(Len(parse_vni_info(call.arg.output)), max_vni_count)
    /\ rpc' = "returned"
    /\ pc' = "end"
    /\ UNCHANGED <<max_vni_count, call, testbed, library, device_info, setup_failed,
                   test_results, device_metrics, steps, report>>

NextUtilization ==
    \/ TestResourceUtilization
    \/ ValidateParsedVniUsage

SpecUtilization == InitUtilization /\ [][NextUtilization]_vars

\* ---------------------------------------------------------------------
\* C30: the health check and the validator's usage rule

\* the tier the health check put the device in, from what it told the step
HealthTier ==
    CASE steps.reason.fmt = "Critical VNI usage on {device_name}: {vni_count}/{max_vnis} ({percentage:.1f}%)"
            -> "critical"
      [] steps.reason.fmt = "High VNI usage on {device_name}: {vni_count}/{max_vnis} ({percentage:.1f}%)"
            -> "warning"
      [] steps.reason.fmt = "VNI usage within acceptable limits on {device_name}: {vni_count}/{max_vnis} ({percentage:.1f}%)"
            -> "ok"
      [] OTHER -> "raised"

\* the tier the usage rule of the validator put the count in
ValidatorTier ==
    IF IsRaised(ret) THEN "raised"
    ELSE IF ret.passed THEN "ok"
    ELSE ret.severity

\* C30: for the same `show nve vni` output and the same max_vni_count, the
\* health check test_resource_utilization and the usage rule of the VNI
\* validator, applied to the number of parsed VNI records, count the same
\* number of VNIs and put it in the same tier: ok, warning at 75 percent,
\* critical at 90 percent.
C30_SameCountSameTier ==
    pc = "end" =>
        /\ device_metrics["leaf1"]["current_vni_count"] = Len(parse_vni_info(call.arg.output))
        /\ ~IsRaised(ret) =>
              device_metrics["leaf1"]["current_vni_count"] = ret.details.current
        /\ HealthTier = ValidatorTier

\* a count between 75 and 90 percent of a small maximum, three VNIs of
\* four: both say warning
C30_Witness ==
    /\ pc = "end"
    /\ max_vni_count = UtilizationMaxVniCount
    /\ ~IsRaised(ret)
    /\ ret.details.current = device_metrics["leaf1"]["current_vni_count"]
    /\ ret.details.current > 0
    /\ HealthTier = "warning"
    /\ ret.severity = "warning"

\* four VNIs of four: both say critical
C30_Critical ==
    /\ pc = "end"
    /\ HealthTier = "critical"
    /\ ~IsRaised(ret)
    /\ ret.severity = "critical"

====
